---- MODULE Spec2Model ----
(***************************************************************************)
(* LayerLite: the reversible file pruner, its size reporter and the        *)
(* recursive import analysis (src/src/analyze_recursive_imports.py), with  *)
(* the restore-one and permanent-removal tools of                          *)
(* src/src/agent_cleanup_package.py.                                       *)
(*                                                                         *)
(* A file or directory name is a sequence of text pieces, so that the      *)
(* substring tests of the code ('__DELETED_' in el, 'FILE' in str(arbo),   *)
(* name.replace(...), startswith, endswith) are computed on the name and   *)
(* not assumed.  A path is a sequence of names relative to the package     *)
(* root.  The bytes of a file are a content identifier with a size.        *)
(***************************************************************************)
EXTENDS Integers, Sequences, FiniteSets, TLC

VARIABLES
    files,      \* the regular files under the package root: path -> bytes
    to_keep,    \* the used-path index object handed to the pruner: path -> kind
    stack,      \* call stack of virtual_remove_unused_files: frames [dir, todo]
    pc,         \* "idle", "prune" (inside a pass) or "copied" (after copy2, before os.remove)
    cur,        \* the entry being soft-deleted while pc = "copied"
    report,     \* the last value returned by compute_virtual_gained_size
    ops,        \* the operations completed so far, oldest first
    orig,       \* the files at installation time
    snapFiles,  \* the files when the current or last prune pass started
    snapKeep,   \* the index when the current or last prune pass started
    passOps,    \* number of copy2 and os.remove calls of the current or last pass
    confirmed,  \* save_env_and_remove_deleted_files has been called
    used,       \* the paths the analysis found used (resolved and probable paths)
    nodes,      \* the Tree objects of the analysis, by creation number
    gstack,     \* call stack of recursive_analysis: frames [node, phase, names, kids, todo]
    answers,    \* what the resolver has answered so far: file -> its import names
    maxDepth,   \* the deepest nesting of recursive_analysis calls so far
    imports,    \* the import names the files of the environment can hold
    pipe,       \* the run of an entry point: [entry, phase, probable (node -> probable_paths)]
    refs,       \* a call of Tree.get_references: its resolver input and what it returned
    tool,       \* a call of an agent tool on paths: its arguments, the disk and the outcome
    init,       \* an __init__.py under clean_init_files: its text, its backup, the history
    index       \* a call of extract_used_files: the tree's paths and the mapping built

fsvars == <<files, to_keep, stack, pc, cur, report, ops, orig, snapFiles, snapKeep, passOps, confirmed, used>>
gvars == <<nodes, gstack, answers, maxDepth, imports>>
tvars == <<pipe, refs, tool, init, index>>
vars == <<fsvars, gvars, tvars>>

\* no entry point, get_references call, tool call or init-file cleaning is under way
NoCall == pipe = <<>> /\ refs = <<>> /\ tool = <<>> /\ init = <<>> /\ index = <<>>

\* no package on disk and no pass under way; no analysis under way
NoFiles ==
    /\ files = <<>> /\ to_keep = <<>> /\ stack = <<>> /\ pc = "idle" /\ cur = <<>>
    /\ report = <<>> /\ ops = <<>> /\ orig = <<>> /\ snapFiles = <<>> /\ snapKeep = <<>>
    /\ passOps = 0 /\ confirmed = FALSE /\ used = {}
NoAnalysis ==
    nodes = <<>> /\ gstack = <<>> /\ answers = <<>> /\ maxDepth = 0 /\ imports = {}

(***************************************************************************)
(* Bounds of the model.                                                    *)
(***************************************************************************)
MaxOps == 3
MaxDeps == 1
MaxNames == 2
MaxLines == 2
MaxText == 2
MaxRuns == 2
MaxFaults == 1
MaxSegs == 3
MaxColumns == 2

(***************************************************************************)
(* Names and paths.                                                        *)
(***************************************************************************)
Marker == "__DELETED_"
LeafWord == "FILE"

N_a == <<"a", ".py">>
N_b == <<"b", ".py">>
N_c == <<"c", ".py">>
N_init == <<"__init__", ".py">>
N_profile == <<"PRO", "FILE", ".txt">>
N_sub == <<"sub">>

RootDir == <<>>
SubDir == <<N_sub>>
Dirs == {RootDir, SubDir}

CandidateFiles ==
    {<<N_a>>, <<N_b>>, <<N_init>>, <<N_profile>>, <<N_sub, N_c>>}

\* st_size of the bytes first installed at a path
Size(c) ==
    CASE c = <<N_a>> -> 5243
      [] c = <<N_b>> -> 5243
      [] c = <<N_sub, N_c>> -> 131072
      [] c = <<N_profile>> -> 1048576
      [] OTHER -> 0

NameContains(n, piece) == \E i \in 1..Len(n) : n[i] = piece

\* str.replace(piece, "", 1)
RemoveFirst(n, piece) ==
    IF NameContains(n, piece)
    THEN LET i == CHOOSE k \in 1..Len(n) : n[k] = piece /\ \A j \in 1..(k-1) : n[j] # piece
         IN  SubSeq(n, 1, i-1) \o SubSeq(n, i+1, Len(n))
    ELSE n

Parent(p) == SubSeq(p, 1, Len(p) - 1)
Base(p) == p[Len(p)]
Join(d, n) == Append(d, n)
IsUnder(d, p) == Len(p) > Len(d) /\ SubSeq(p, 1, Len(d)) = d

\* str(f) of a path below the root contains the marker
PathContainsMarker(p) == \E i \in 1..Len(p) : NameContains(p[i], Marker)

Put(f, p, v) == [q \in (DOMAIN f) \cup {p} |-> IF q = p THEN v ELSE f[q]]
Drop(f, p) == [q \in (DOMAIN f) \ {p} |-> f[q]]

\* os.listdir(d): the files and the sub-directories directly in d
ListDir(f, d) ==
    {Base(p) : p \in {q \in DOMAIN f : Parent(q) = d}}
        \cup {Base(p) : p \in {q \in Dirs : q # RootDir /\ Parent(q) = d}}

\* Path.rename / shutil.move of a file: replaces an existing destination
Rename(f, p, q) == IF p = q \/ p \notin DOMAIN f THEN f ELSE Drop(Put(f, q, f[p]), p)

(***************************************************************************)
(* The used-path index: a nested dict, kept flat as path -> kind, with     *)
(* kind "FILE" (used leaf), "DELETED" (written by the pruner) or "DICT".   *)
(***************************************************************************)
Prefixes(p) == {SubSeq(p, 1, k) : k \in 1..(Len(p) - 1)}

\* extract_used_files on a set of paths below the package root
IndexOf(leaves) ==
    [p \in leaves \cup UNION {Prefixes(l) : l \in leaves} |->
        IF p \in leaves THEN "FILE" ELSE "DICT"]

Truthy_leafonly(k, p) == p \in DOMAIN k /\ k[p] = "FILE"

\* bool(to_keep_of_parent.get(el)) for the entry at path p
Truthy(k, p) ==
    /\ p \in DOMAIN k
    /\ \/ k[p] \in {"FILE", "DELETED"}
       \/ k[p] = "DICT" /\ \E q \in DOMAIN k : IsUnder(p, q)

\* to_keep[el] = {}
SetEmptyDict(k, p) ==
    [q \in ((DOMAIN k) \ {r \in DOMAIN k : IsUnder(p, r)}) \cup {p} |->
        IF q = p THEN "DICT" ELSE k[q]]

has_file_never(k, d) == FALSE

\* has_file(arbo): 'FILE' in str(arbo), arbo the index entry of directory d
has_file(k, d) ==
    \E q \in DOMAIN k :
        /\ IsUnder(d, q)
        /\ \/ k[q] = "FILE"
           \/ \E i \in (Len(d) + 1)..Len(q) : NameContains(q[i], LeafWord)

(***************************************************************************)
(* virtual_remove_unused_files, one directory entry at a time.             *)
(***************************************************************************)
Top == stack[Len(stack)]
SetTodo(s, t) == [s EXCEPT ![Len(s)].todo = t]

\* line 296: the entry is left alone without looking at the index
SkipEntry(k, d, el) ==
    (el = N_init /\ has_file(k, d)) \/ NameContains(el, Marker)

BackupPath_nodir(d, el) == <<(<<Marker>> \o el)>>

\* line 299
BackupPath(d, el) == Join(d, <<Marker>> \o el)

\* the caller builds the index anew from the analysis (extract_used_files) before a pass
BuildIndex ==
    /\ pc = "idle"
    /\ Len(ops) < MaxOps
    /\ to_keep # IndexOf(used)
    /\ to_keep' = IndexOf(used)
    /\ UNCHANGED <<files, stack, pc, cur, report, ops, orig, snapFiles, snapKeep, passOps, confirmed, used, gvars, tvars>>

PruneBegin ==
    /\ pc = "idle"
    /\ Len(ops) < MaxOps
    /\ pc' = "prune"
    /\ stack' = <<[dir |-> RootDir, todo |-> ListDir(files, RootDir)]>>
    /\ snapFiles' = files
    /\ snapKeep' = to_keep
    /\ passOps' = 0
    /\ UNCHANGED <<files, to_keep, cur, report, ops, orig, confirmed, used, gvars, tvars>>

\* line 296-297: continue
PruneSkip ==
    /\ pc = "prune" /\ stack # <<>>
    /\ \E el \in Top.todo :
        /\ SkipEntry(to_keep, Top.dir, el)
        /\ stack' = SetTodo(stack, Top.todo \ {el})
    /\ UNCHANGED <<files, to_keep, pc, cur, report, ops, orig, snapFiles, snapKeep, passOps, confirmed, used, gvars, tvars>>

PruneEnter_indexedonly ==
    /\ pc = "prune" /\ stack # <<>>
    /\ \E el \in Top.todo :
        LET full == Join(Top.dir, el) IN
        /\ ~SkipEntry(to_keep, Top.dir, el)
        /\ full \in Dirs
        /\ UNCHANGED to_keep
        /\ stack' = IF Truthy(to_keep, full)
                    THEN Append(SetTodo(stack, Top.todo \ {el}),
                                [dir |-> full, todo |-> ListDir(files, full)])
                    ELSE SetTodo(stack, Top.todo \ {el})
    /\ UNCHANGED <<files, pc, cur, report, ops, orig, snapFiles, snapKeep, passOps, confirmed, used, gvars, tvars>>

\* lines 301-304: a directory is entered, its index entry created when missing or empty
PruneEnter ==
    /\ pc = "prune" /\ stack # <<>>
    /\ \E el \in Top.todo :
        LET full == Join(Top.dir, el) IN
        /\ ~SkipEntry(to_keep, Top.dir, el)
        /\ full \in Dirs
        /\ to_keep' = IF Truthy(to_keep, full) THEN to_keep ELSE SetEmptyDict(to_keep, full)
        /\ stack' = Append(SetTodo(stack, Top.todo \ {el}),
                           [dir |-> full, todo |-> ListDir(files, full)])
    /\ UNCHANGED <<files, pc, cur, report, ops, orig, snapFiles, snapKeep, passOps, confirmed, used, gvars, tvars>>

\* line 305 false: the file is used (or already marked in the index)
PruneKeep ==
    /\ pc = "prune" /\ stack # <<>>
    /\ \E el \in Top.todo :
        LET full == Join(Top.dir, el) IN
        /\ ~SkipEntry(to_keep, Top.dir, el)
        /\ full \notin Dirs
        /\ Truthy(to_keep, full)
        /\ stack' = SetTodo(stack, Top.todo \ {el})
    /\ UNCHANGED <<files, to_keep, pc, cur, report, ops, orig, snapFiles, snapKeep, passOps, confirmed, used, gvars, tvars>>

\* lines 305-306: shutil.copy2(full_path, backup_path)
PruneCopy ==
    /\ pc = "prune" /\ stack # <<>>
    /\ \E el \in Top.todo :
        LET full == Join(Top.dir, el) IN
        /\ ~SkipEntry(to_keep, Top.dir, el)
        /\ full \notin Dirs
        /\ ~Truthy(to_keep, full)
        /\ files' = Put(files, BackupPath(Top.dir, el), files[full])
        /\ cur' = full
        /\ pc' = "copied"
        /\ passOps' = passOps + 1
    /\ UNCHANGED <<to_keep, stack, report, ops, orig, snapFiles, snapKeep, confirmed, used, gvars, tvars>>

\* lines 307-308: os.remove(full_path); to_keep[el] = 'DELETED'
PruneRemove ==
    /\ pc = "copied"
    /\ files' = Drop(files, cur)
    /\ to_keep' = Put(to_keep, cur, "DELETED")
    /\ stack' = SetTodo(stack, Top.todo \ {Base(cur)})
    /\ pc' = "prune"
    /\ passOps' = passOps + 1
    /\ UNCHANGED <<cur, report, ops, orig, snapFiles, snapKeep, confirmed, used, gvars, tvars>>

\* the for loop of a directory is exhausted: the call returns
PruneReturn ==
    /\ pc = "prune" /\ stack # <<>>
    /\ Top.todo = {}
    /\ stack' = SubSeq(stack, 1, Len(stack) - 1)
    /\ IF Len(stack) = 1
       THEN pc' = "idle" /\ ops' = Append(ops, "prune")
       ELSE UNCHANGED <<pc, ops>>
    /\ UNCHANGED <<files, to_keep, cur, report, orig, snapFiles, snapKeep, passOps, confirmed, used, gvars, tvars>>

(***************************************************************************)
(* Faults during a pass.  virtual_remove_unused_files has no try/except:   *)
(* an OSError of copy2 or os.remove leaves through every frame of the      *)
(* recursion (run_main_pipeline catches it at lines 103-105).  A crash     *)
(* ends the process at any point; the index object is lost with it.        *)
(***************************************************************************)
PartialBytes == <<(<<"partial copy">>)>>

\* the passes cut short so far
Faults == Cardinality({i \in 1..Len(ops) : ops[i] \in {"crash", "prune_failed"}})

\* copy2 raises (having written nothing, or part of the backup), or os.remove raises
PruneFail ==
    /\ Len(ops) < MaxOps /\ Faults < MaxFaults
    /\ \/ /\ pc = "prune" /\ stack # <<>>
          /\ \E el \in Top.todo :
                LET full == Join(Top.dir, el) IN
                /\ ~SkipEntry(to_keep, Top.dir, el)
                /\ full \notin Dirs
                /\ ~Truthy(to_keep, full)
                /\ cur' = full
                /\ \/ UNCHANGED files
                   \/ files' = Put(files, BackupPath(Top.dir, el), PartialBytes)
       \/ /\ pc = "copied"
          /\ UNCHANGED <<files, cur>>
    /\ stack' = <<>>
    /\ pc' = "idle"
    /\ ops' = Append(ops, "prune_failed")
    /\ UNCHANGED <<to_keep, report, orig, snapFiles, snapKeep, passOps, confirmed, used, gvars, tvars>>

\* the process dies inside the pass: between two entries, during a copy2, or between
\* copy2 and os.remove; the next run builds its index again
PruneCrash ==
    /\ Len(ops) < MaxOps /\ Faults < MaxFaults
    /\ \/ /\ pc = "prune" /\ stack # <<>>
          /\ \/ UNCHANGED files
             \/ \E el \in Top.todo :
                    LET full == Join(Top.dir, el) IN
                    /\ ~SkipEntry(to_keep, Top.dir, el)
                    /\ full \notin Dirs
                    /\ ~Truthy(to_keep, full)
                    /\ files' = Put(files, BackupPath(Top.dir, el), PartialBytes)
       \/ /\ pc = "copied"
          /\ UNCHANGED files
    /\ stack' = <<>>
    /\ pc' = "idle"
    /\ to_keep' = IndexOf(used)
    /\ ops' = Append(ops, "crash")
    /\ UNCHANGED <<cur, report, orig, snapFiles, snapKeep, passOps, confirmed, used, gvars, tvars>>

(***************************************************************************)
(* re_add_virtualy_removed_files                                           *)
(***************************************************************************)
IsDeletedFile_toplevel(p) == Len(p) = 1 /\ PathContainsMarker(p)

\* line 313 (also 323): '__DELETED_' in str(f)
IsDeletedFile(p) == PathContainsMarker(p)

\* a loop that stops after its first rename
ReAddLoop_first(f, todo) ==
    IF todo = {} THEN f
    ELSE LET p == CHOOSE x \in todo : TRUE
         IN  Rename(f, p, Join(Parent(p), RemoveFirst(Base(p), Marker)))

RECURSIVE ReAddLoop(_, _)
ReAddLoop(f, todo) ==
    IF todo = {} THEN f
    ELSE LET p == CHOOSE x \in todo : TRUE
             q == Join(Parent(p), RemoveFirst(Base(p), Marker))
         IN  ReAddLoop(Rename(f, p, q), todo \ {p})

ReAdd(f) == ReAddLoop(f, {p \in DOMAIN f : IsDeletedFile(p)})

RestoreAll ==
    /\ pc = "idle"
    /\ Len(ops) < MaxOps
    /\ files' = ReAdd(files)
    /\ ops' = Append(ops, "restore")
    /\ UNCHANGED <<to_keep, stack, pc, cur, report, orig, snapFiles, snapKeep, passOps, confirmed, used, gvars, tvars>>

(***************************************************************************)
(* move_lib_item used to restore one soft-deleted file, with the automatic *)
(* restore of the dependencies the resolver reports for it.                *)
(***************************************************************************)
EndsWithPy(p) == Base(p)[Len(Base(p))] = ".py"

RECURSIVE AutoUndelete(_, _)
\* auto_undelete_dependencies: lines 124-133
AutoUndelete(f, deps) ==
    IF deps = {} THEN f
    ELSE LET dep == CHOOSE x \in deps : TRUE
             deleted_path == Join(Parent(dep), <<Marker>> \o Base(dep))
             g == IF deleted_path \in DOMAIN f /\ dep \notin DOMAIN f /\ dep \notin Dirs
                  THEN Rename(f, deleted_path, dep)
                  ELSE f
         IN  AutoUndelete(g, deps \ {dep})

\* move_lib_item(source, destination): the files afterwards; deps is the answer of
\* analyze_file_dependencies for the destination
MoveLibItem(f, src, dst, deps) ==
    IF src \notin DOMAIN f \/ dst \in DOMAIN f \/ dst \in Dirs
    THEN f
    ELSE LET moved == Rename(f, src, dst)
         IN  IF PathContainsMarker(src) /\ EndsWithPy(dst)
             THEN AutoUndelete(moved, deps)
             ELSE moved

RestoreOne ==
    /\ pc = "idle"
    /\ Len(ops) < MaxOps
    /\ \E src \in DOMAIN files :
        /\ Base(src)[1] = Marker
        /\ \E deps \in SUBSET CandidateFiles :
            /\ Cardinality(deps) <= MaxDeps
            /\ LET dst == Join(Parent(src), Tail(Base(src)))
                   after == MoveLibItem(files, src, dst, deps)
               IN  /\ after # files
                   /\ files' = after
    /\ ops' = Append(ops, "restore_one")
    /\ UNCHANGED <<to_keep, stack, pc, cur, report, orig, snapFiles, snapKeep, passOps, confirmed, used, gvars, tvars>>

(***************************************************************************)
(* save_env_and_remove_deleted_files: the permanent removal.               *)
(***************************************************************************)
IsMarkedForRemoval_pyonly(p) == Base(p)[1] = Marker /\ EndsWithPy(p)

\* line 425: filename.startswith("__DELETED_")
IsMarkedForRemoval(p) == Base(p)[1] = Marker

RemoveDeleted(f) == [p \in {q \in DOMAIN f : ~IsMarkedForRemoval(q)} |-> f[p]]

ConfirmRemove ==
    /\ pc = "idle"
    /\ Len(ops) < MaxOps
    /\ files' = RemoveDeleted(files)
    /\ confirmed' = TRUE
    /\ ops' = Append(ops, "confirm")
    /\ UNCHANGED <<to_keep, stack, pc, cur, report, orig, snapFiles, snapKeep, passOps, used, gvars, tvars>>

(***************************************************************************)
(* compute_virtual_gained_size                                             *)
(***************************************************************************)
RECURSIVE SumSize(_, _)
SumSize(f, S) ==
    IF S = {} THEN 0
    ELSE LET p == CHOOSE x \in S : TRUE IN Size(f[p]) + SumSize(f, S \ {p})

\* the decimal rounding of format(): nearest, an exact tie to the even digit
RoundHalfEven(num, den) ==
    LET q == num \div den
        r == num % den
    IN  IF 2 * r < den THEN q
        ELSE IF 2 * r > den THEN q + 1
        ELSE IF q % 2 = 0 THEN q ELSE q + 1

BytesPerMB == 1048576

\* f"{to_mb(s):.2f}": hundredths of a MB
MB2(s) == RoundHalfEven(100 * s, BytesPerMB)

\* f"{100 * part / whole:.1f}", 0 when whole is 0: tenths of a percent
Pct1(part, whole) == IF whole = 0 THEN 0 ELSE RoundHalfEven(1000 * part, whole)

ComputeVirtualGainedSize_toplevel(f) ==
    LET all_files == DOMAIN f
        deleted_files == {p \in all_files : IsDeletedFile_toplevel(p)}
        size_all == SumSize(f, all_files)
        size_deleted == SumSize(f, deleted_files)
        size_kept == size_all - size_deleted
    IN  [total |-> Cardinality(all_files),
         deleted |-> Cardinality(deleted_files),
         deleted_pct |-> Pct1(Cardinality(deleted_files), Cardinality(all_files)),
         before |-> MB2(size_all),
         after |-> MB2(size_kept),
         reduction |-> MB2(size_deleted),
         reduction_pct |-> Pct1(size_deleted, size_all)]

\* lines 321-344: the returned figures (MB in hundredths, percentages in tenths)
ComputeVirtualGainedSize(f) ==
    LET all_files == DOMAIN f
        deleted_files == {p \in all_files : IsDeletedFile(p)}
        size_all == SumSize(f, all_files)
        size_deleted == SumSize(f, deleted_files)
        size_kept == size_all - size_deleted
    IN  [total |-> Cardinality(all_files),
         deleted |-> Cardinality(deleted_files),
         deleted_pct |-> Pct1(Cardinality(deleted_files), Cardinality(all_files)),
         before |-> MB2(size_all),
         after |-> MB2(size_kept),
         reduction |-> MB2(size_deleted),
         reduction_pct |-> Pct1(size_deleted, size_all)]

ComputeGain ==
    /\ pc = "idle"
    /\ Len(ops) < MaxOps
    /\ report' = ComputeVirtualGainedSize(files)
    /\ ops' = Append(ops, "report")
    /\ UNCHANGED <<files, to_keep, stack, pc, cur, orig, snapFiles, snapKeep, passOps, confirmed, used, gvars, tvars>>

(***************************************************************************)
(* The recursive import analysis.  A source path is a sequence of its      *)
(* names;    the resolver (jedi) is an input: for each file, the import    *)
(* names it binds, each with the full name and the file of its definition. *)
(***************************************************************************)
SitePackages == <<"site-packages">>
DemoLibName == <<"demoLib">>
LibRoot == <<SitePackages, DemoLibName>>

G_user == <<(<<"user_input">>), (<<"user_file", ".py">>)>>
G_a == LibRoot \o <<N_a>>
G_b == LibRoot \o <<N_b>>
G_init == LibRoot \o <<N_init>>
\* files of other installed packages: one whose directory name only begins like the
\* package under analysis, one without any likeness
G_near == <<SitePackages, <<"demoLib", "_tools">>, N_a>>
G_other == <<SitePackages, <<"other">>, N_b>>
NoPath == <<>>
NoDefinition == <<"(no definition)">>
NoModulePath == <<"(definition without module_path)">>

LibsToAnalyze == {"demoLib"}
InitialPath == G_user

\* an import name of a file: where name.goto() leads (a file, no definition at all,
\* or a definition without module_path, the name being of type module)
ImportNames ==
    {[full |-> "f", module |-> "", line |-> 1, target |-> G_a],
     [full |-> "g", module |-> "", line |-> 1, target |-> G_a],
     [full |-> "f", module |-> "", line |-> 1, target |-> G_b],
     [full |-> "f", module |-> "", line |-> 1, target |-> G_init],
     [full |-> "f", module |-> "", line |-> 1, target |-> G_user],
     [full |-> "f", module |-> "", line |-> 1, target |-> NoDefinition],
     [full |-> "g", module |-> "", line |-> 1, target |-> NoModulePath]}

\* the import names of an environment that also holds other packages
ScopeImportNames ==
    {[full |-> "f", module |-> "", line |-> 1, target |-> G_a],
     [full |-> "f", module |-> "", line |-> 1, target |-> G_init],
     [full |-> "f", module |-> "", line |-> 1, target |-> G_near],
     [full |-> "f", module |-> "", line |-> 1, target |-> G_other],
     [full |-> "g", module |-> "", line |-> 1, target |-> NoDefinition]}

ResolverAnswers == {ns \in SUBSET imports : Cardinality(ns) <= MaxNames}

IsResolved(e) == e.target \notin {NoDefinition, NoModulePath}

\* path.endswith('__init__.py')
EndsWithInit(path) ==
    /\ path # NoPath
    /\ LET n == path[Len(path)] IN
        Len(n) >= Len(N_init) /\ SubSeq(n, Len(n) - Len(N_init) + 1, Len(n)) = N_init
\* any(lib in self.path for lib in libs_to_analyze)
InLibs(path) == \E i \in 1..Len(path) : \E lib \in LibsToAnalyze : NameContains(path[i], lib)

GTop == gstack[Len(gstack)]
GSetTop(f) == [gstack EXCEPT ![Len(gstack)] = f]

to_root_self(i) == i

RECURSIVE to_root(_)
\* Tree.to_root
to_root(i) == IF nodes[i].parent = 0 THEN i ELSE to_root(nodes[i].parent)

RECURSIVE Subtree(_)
\* the nodes Tree.search_node visits from node i: i and what hangs below it
Subtree(i) == {i} \cup UNION {Subtree(c) : c \in nodes[i].children}

\* Tree.search_node: the nodes of the subtree that carry the path (the first one met
\* depends on the iteration order of the children sets)
search_node(start, path) == {i \in Subtree(start) : nodes[i].path = path}

\* Tree.should_analyze
should_analyze(n) ==
    /\ n.path # NoPath /\ ~n.analyzed
    /\ InLibs(n.path) \/ (n.path = InitialPath /\ ~EndsWithInit(n.path))

\* the Tree built at lines 209-217 (resolved) or 223-232, 236-244 (not found)
NewChild(parent, e) ==
    [path |-> IF IsResolved(e) THEN e.target ELSE NoPath,
     name |-> e.full,
     module |-> e.module,
     line |-> e.line,
     not_found |-> ~IsResolved(e),
     parent |-> parent,
     depth |-> nodes[parent].depth + 1,
     other_parents |-> <<>>,
     children |-> {},
     analyzed |-> FALSE]

RECURSIVE SetToSeq(_)
SetToSeq(S) ==
    IF S = {} THEN <<>>
    ELSE LET x == CHOOSE y \in S : TRUE IN <<x>> \o SetToSeq(S \ {x})

\* recursive_analysis is entered for the node of the top frame: lines 261-262, or the
\* start of extract_imports, where the resolver answers for the file
GCall ==
    /\ gstack # <<>> /\ GTop.phase = "enter"
    /\ LET path == nodes[GTop.node].path IN
        IF EndsWithInit(path)
        THEN /\ gstack' = GSetTop([GTop EXCEPT !.phase = "loop", !.todo = {}])
             /\ UNCHANGED answers
        ELSE /\ IF path \in DOMAIN answers
                THEN UNCHANGED answers
                ELSE \E ans \in ResolverAnswers : answers' = Put(answers, path, ans)
             /\ gstack' = GSetTop([GTop EXCEPT !.phase = "extract",
                                               !.names = answers'[path], !.kids = {}])
    /\ UNCHANGED <<nodes, maxDepth, imports, fsvars, tvars>>

\* explore_name_definitions for a name whose definition is in a file not yet in the tree
GExploreNew ==
    /\ gstack # <<>> /\ GTop.phase = "extract"
    /\ \E e \in GTop.names :
        /\ IsResolved(e)
        /\ e.target # nodes[GTop.node].path
        /\ search_node(to_root(GTop.node), e.target) = {}
        /\ gstack' = GSetTop([GTop EXCEPT !.names = @ \ {e},
                                          !.kids = @ \cup {NewChild(GTop.node, e)}])
    /\ UNCHANGED <<nodes, answers, maxDepth, imports, fsvars, tvars>>

\* explore_name_definitions for a name whose definition is in a file already in the
\* tree (line 221), or in the file itself (line 206 false)
GExploreKnown ==
    /\ gstack # <<>> /\ GTop.phase = "extract"
    /\ \E e \in GTop.names :
        /\ IsResolved(e)
        /\ \/ /\ e.target = nodes[GTop.node].path
              /\ UNCHANGED nodes
           \/ /\ e.target # nodes[GTop.node].path
              /\ \E i \in search_node(to_root(GTop.node), e.target) :
                    nodes' = [nodes EXCEPT ![i].other_parents =
                                                Append(@, nodes[GTop.node].path)]
        /\ gstack' = GSetTop([GTop EXCEPT !.names = @ \ {e}])
    /\ UNCHANGED <<answers, maxDepth, imports, fsvars, tvars>>

\* the name is passed over and leaves no child
GExploreNotFound_dropped ==
    /\ gstack # <<>> /\ GTop.phase = "extract"
    /\ \E e \in GTop.names :
        /\ ~IsResolved(e)
        /\ gstack' = GSetTop([GTop EXCEPT !.names = @ \ {e}])
    /\ UNCHANGED <<nodes, answers, maxDepth, imports, fsvars, tvars>>

\* explore_name_definitions for a name that does not resolve to a file
GExploreNotFound ==
    /\ gstack # <<>> /\ GTop.phase = "extract"
    /\ \E e \in GTop.names :
        /\ ~IsResolved(e)
        /\ gstack' = GSetTop([GTop EXCEPT !.names = @ \ {e},
                                          !.kids = @ \cup {NewChild(GTop.node, e)}])
    /\ UNCHANGED <<nodes, answers, maxDepth, imports, fsvars, tvars>>

\* line 257: tree.children = source_files, then the loop of line 265 starts
GAttach ==
    /\ gstack # <<>> /\ GTop.phase = "extract" /\ GTop.names = {}
    /\ LET new == SetToSeq(GTop.kids)
           ids == (Len(nodes) + 1)..(Len(nodes) + Len(new))
       IN  /\ nodes' = [nodes EXCEPT ![GTop.node].children = ids] \o new
           /\ gstack' = GSetTop([GTop EXCEPT !.phase = "loop", !.kids = {}, !.todo = ids])
    /\ UNCHANGED <<answers, maxDepth, imports, fsvars, tvars>>

\* lines 265-267: the next child; the call recurses when should_analyze says so
GDescend ==
    /\ gstack # <<>> /\ GTop.phase = "loop"
    /\ \E c \in GTop.todo :
        LET rest == GSetTop([GTop EXCEPT !.todo = @ \ {c}]) IN
        IF should_analyze(nodes[c])
        THEN /\ gstack' = Append(rest, [node |-> c, phase |-> "enter",
                                        names |-> {}, kids |-> {}, todo |-> {}])
             /\ maxDepth' = IF Len(gstack') > maxDepth THEN Len(gstack') ELSE maxDepth
        ELSE /\ gstack' = rest
             /\ UNCHANGED maxDepth
    /\ UNCHANGED <<nodes, answers, imports, fsvars, tvars>>

\* lines 268-269: the call returns and its caller marks the child analyzed
GReturn ==
    /\ gstack # <<>> /\ GTop.phase = "loop" /\ GTop.todo = {}
    /\ gstack' = SubSeq(gstack, 1, Len(gstack) - 1)
    /\ nodes' = IF Len(gstack) > 1
                THEN [nodes EXCEPT ![GTop.node].analyzed = TRUE]
                ELSE nodes
    /\ UNCHANGED <<answers, maxDepth, imports, fsvars, tvars>>

GDone == gstack = <<>>

(***************************************************************************)
(* The two entry points that chain the analysis and the pruner:            *)
(* run_main_pipeline (layerlite.py) and the __main__ block of              *)
(* analyze_recursive_imports.py.  The analysis has returned; its tree is   *)
(* in nodes.                                                               *)
(***************************************************************************)
ExtName == "foo_ext"
N_ext == <<ExtName, ".cpython-313-darwin", ".so">>

PipelineFiles == CandidateFiles \cup {<<N_ext>>}

\* f.startswith(name) for a file or directory name f
StartsWith(n, name) == n # <<>> /\ n[1] = name

IsInLib(path) == Len(path) > Len(LibRoot) /\ SubSeq(path, 1, Len(LibRoot)) = LibRoot
\* _path.split('site-packages/')[1].split('/') without the package name: the key path
\* inside dpaths[lib]
RelInLib(path) == SubSeq(path, Len(LibRoot) + 1, Len(path))

\* os.listdir of a directory given by its full path; outside the package nothing that
\* a heuristic of the analysis could match
OsListDir(f, dir) ==
    IF dir = LibRoot \/ IsInLib(dir) THEN ListDir(f, RelInLib(dir)) ELSE {}

\* os.path.isdir(file), and the files os.walk(file) yields
IsDirPath(path) == IsInLib(path) /\ RelInLib(path) \in Dirs
Walk(f, path) == {LibRoot \o q : q \in {r \in DOMAIN f : IsUnder(RelInLib(path), r)}}

\* Tree.guess_probable_path, lines 90-115, for node i: what it appends to probable_paths
GuessNode(f, i) ==
    LET n == nodes[i] IN
    IF ~(n.not_found /\ n.parent # 0) THEN {}
    ELSE LET dirname == Parent(nodes[n.parent].path)
             entries == OsListDir(f, dirname)
             by_name == {e \in entries : StartsWith(e, n.name)}
             by_module == {e \in entries : n.module # "" /\ StartsWith(e, n.module)}
             chosen == IF by_name # {} THEN by_name ELSE by_module
         IN  UNION {IF IsDirPath(Join(dirname, e)) THEN Walk(f, Join(dirname, e))
                    ELSE {Join(dirname, e)} : e \in chosen}

\* Tree.get_all_paths from the root: the paths of the resolved nodes and the probable
\* paths of the nodes not found
GetAllPaths(probable) ==
    {nodes[i].path : i \in {j \in Subtree(1) : ~nodes[j].not_found}}
        \cup UNION {probable[i] : i \in {j \in Subtree(1) : nodes[j].not_found}}

\* the pieces of a name that begin with a dot
ExtPieces == {".py", ".pyi", ".so", ".cpython-313-darwin", ".txt"}

\* filename.split('.')[0]
BaseName(n) ==
    IF \E k \in 1..Len(n) : n[k] \in ExtPieces
    THEN LET k == CHOOSE j \in 1..Len(n) :
                    n[j] \in ExtPieces /\ \A h \in 1..(j - 1) : n[h] \notin ExtPieces
         IN  SubSeq(n, 1, k - 1)
    ELSE n

\* the name has the very base name asked for
HasBaseName(e, b) == BaseName(e) = b

\* line 135: f.startswith(filename.split('.')[0])
HasPrefix(e, b) == Len(e) >= Len(b) /\ SubSeq(e, 1, Len(b)) = b

\* path.split('.')[-1] == 'pyi'
IsPyi(p) == p # NoPath /\ Base(p)[Len(Base(p))] = ".pyi"

\* line 135: the files listed next to the stub p that the nodes are made for
StubSiblings(f, p) ==
    {Join(Parent(p), e) : e \in {x \in OsListDir(f, Parent(p)) :
                                    HasPrefix(x, BaseName(Base(p))) /\ x # Base(p)}}

\* Tree.stub_add_compiled_file: the paths of the nodes it adds next to a .pyi path
StubAdd(f, paths) ==
    UNION {IF IsPyi(p) THEN StubSiblings(f, p) ELSE {} : p \in paths}

\* the .pyi paths among all_paths of node i (lines 129-133)
StubPaths(i) == {p \in pipe.probable[i] \cup {nodes[i].path} : IsPyi(p)}

\* lines 137-145: the Tree objects node i adds to the children of its parent
StubNodes(f, i) ==
    {[path |-> file, name |-> nodes[i].name, module |-> "", line |-> 0,
      not_found |-> FALSE, parent |-> nodes[i].parent, depth |-> nodes[i].depth,
      other_parents |-> <<>>, children |-> {}, analyzed |-> FALSE] :
        file \in UNION {StubSiblings(f, p) : p \in StubPaths(i)}}

\* Tree.stub_add_compiled_file on the root: every node the tree holds at the call is
\* visited (line 147 copies the children before the loop), the added ones are not
StubAddCompiledFile ==
    /\ pipe # <<>> /\ pipe.entry = "stub_add_compiled_file" /\ pipe.phase = "guessed"
    /\ LET visited == Subtree(1)
           new == SetToSeq(UNION {StubNodes(files, i) : i \in visited})
           id(k) == Len(nodes) + k
           grown == [i \in DOMAIN nodes |->
                        [nodes[i] EXCEPT !.children =
                            @ \cup {id(k) : k \in {h \in 1..Len(new) : new[h].parent = i}}]]
       IN  /\ nodes' = grown \o new
           /\ pipe' = [pipe EXCEPT !.phase = "stubbed",
                                   !.probable = [i \in 1..(Len(nodes) + Len(new)) |->
                                                    IF i \in DOMAIN nodes THEN @[i] ELSE {}],
                                   !.is_stub = [i \in 1..(Len(nodes) + Len(new)) |->
                                                    i \in visited /\ StubPaths(i) # {}]]
    /\ UNCHANGED <<fsvars, gstack, answers, maxDepth, imports, refs, tool, init, index>>

\* the leaves of dpaths[lib] that extract_used_files builds from the paths
UsedInLib(paths) == {RelInLib(p) : p \in {q \in paths : q # NoPath /\ IsInLib(q)}}

\* __main__, line 378: guess_probable_path on the tree
PipeGuess ==
    /\ pipe # <<>> /\ pipe.entry = "__main__" /\ pipe.phase = "analysed"
    /\ pipe' = [pipe EXCEPT !.phase = "guessed",
                            !.probable = [i \in DOMAIN nodes |-> GuessNode(files, i)]]
    /\ UNCHANGED <<fsvars, gvars, refs, tool, init, index>>

\* run_main_pipeline lines 93-94 (__main__ lines 379-381): stub_add_compiled_file and
\* extract_used_files; dpaths[lib] raises KeyError when no used path is in the package
PipeExtract ==
    /\ pipe # <<>>
    /\ pipe.phase = (IF pipe.entry = "__main__" THEN "guessed" ELSE "analysed")
    /\ LET paths == GetAllPaths(pipe.probable)
           u == UsedInLib(paths \cup StubAdd(files, paths))
       IN  /\ used' = u
           /\ IF u = {}
              THEN pipe' = [pipe EXCEPT !.phase = "error"] /\ UNCHANGED to_keep
              ELSE pipe' = [pipe EXCEPT !.phase = "indexed"] /\ to_keep' = IndexOf(u)
    /\ UNCHANGED <<files, stack, pc, cur, report, ops, orig, snapFiles, snapKeep, passOps, confirmed, gvars, refs, tool, init, index>>

\* run_main_pipeline line 97 (__main__ line 384): the pass starts
PipePrune ==
    /\ pipe # <<>> /\ pipe.phase = "indexed" /\ ops = <<>>
    /\ PruneBegin

InitialMarker == "__INITIAL_"

\* clean_init_files on the package: every __init__.py gets its __INITIAL_ backup and
\* is rewritten (the files of changed get a new text)
CleanInitFiles(f, changed) ==
    LET inits == {p \in DOMAIN f : Base(p) = N_init}
        backup(p) == Join(Parent(p), <<InitialMarker>> \o N_init)
    IN  [q \in (DOMAIN f) \cup {backup(p) : p \in inits} |->
            IF \E p \in inits : q = backup(p)
            THEN f[Join(Parent(q), N_init)]
            ELSE IF q \in changed THEN <<(<<"rewritten by clean_init_files">>)>> \o f[q]
            ELSE f[q]]

\* run_main_pipeline line 98
PipeClean ==
    /\ pipe # <<>> /\ pipe.entry = "run_main_pipeline" /\ pipe.phase = "indexed"
    /\ ops = <<"prune">> /\ pc = "idle"
    /\ \E changed \in SUBSET {p \in DOMAIN files : Base(p) = N_init} :
            files' = CleanInitFiles(files, changed)
    /\ pipe' = [pipe EXCEPT !.phase = "cleaned"]
    /\ UNCHANGED <<to_keep, stack, pc, cur, report, ops, orig, snapFiles, snapKeep, passOps, confirmed, used, gvars, refs, tool, init, index>>

\* run_main_pipeline line 100 (__main__ line 385)
PipeReport ==
    /\ pipe # <<>> /\ ops = <<"prune">>
    /\ pipe.phase = (IF pipe.entry = "__main__" THEN "indexed" ELSE "cleaned")
    /\ ComputeGain

(***************************************************************************)
(* Tree.get_references.  The resolver gives the lines of the names bound   *)
(* at module level and the module-typed references that are not such       *)
(* names, each with line and column; the file gives, per line, whether it  *)
(* holds '(' and whether it holds ')'.                                     *)
(***************************************************************************)
SourceLines == [1..MaxLines -> [open : BOOLEAN, close : BOOLEAN]]
References == [line : 1..MaxLines, column : 1..MaxColumns]

has_parentheses_openonly(lines, line_number) == lines[line_number].open

\* has_parentheses(file_path, line_number)
has_parentheses(lines, line_number) ==
    lines[line_number].open \/ lines[line_number].close

\* line 173
WildcardImports(lines, n_lines, names_references) ==
    {name \in names_references :
        name.line \notin n_lines /\ ~has_parentheses(lines, name.line)}

\* lines 174-178: per line, a reference is replaced unless the one kept has a greater
\* column, so the reference of greatest column stays whatever the order of the list
LineToRef(names_references) ==
    [l \in {r.line : r \in names_references} |->
        CHOOSE r \in names_references :
            r.line = l /\ \A q \in names_references : q.line = l => q.column <= r.column]

GetReferences ==
    /\ refs # <<>> /\ ~refs.done
    /\ refs' = [refs EXCEPT !.done = TRUE,
                    !.wildcard_imports = WildcardImports(refs.lines, refs.n_lines, refs.names_references),
                    !.line_to_ref = LineToRef(refs.names_references)]
    /\ UNCHANGED <<fsvars, gvars, pipe, tool, init, index>>

(***************************************************************************)
(* The path tools of agent_cleanup_package.py.  A disk maps the absolute   *)
(* path of a regular file to its bytes; a relative_path argument is a      *)
(* sequence of path segments, ".." among them.                             *)
(***************************************************************************)
Up == <<"..">>
EnvDir == <<"sandbox-env">>
BackupName == SitePackages \o <<"-backup">>
DelA == <<Marker>> \o N_a

\* LIB_ROOT_PATH.resolve(), and a sibling directory of it
AbsRoot == <<EnvDir, SitePackages>>
BackupRoot == <<EnvDir, BackupName>>
DiskDirs == {<<>>, <<EnvDir>>, AbsRoot, BackupRoot}

Segs == {Up, N_a, DelA, BackupName}
RelArgs == UNION {[1..n -> Segs] : n \in 0..MaxSegs}
DstArgs == {<<N_a>>, <<DelA>>, <<Up, N_a>>, <<Up, BackupName, N_a>>, <<N_a, N_b>>}
DiskFiles == {AbsRoot \o <<N_a>>, AbsRoot \o <<DelA>>, BackupRoot \o <<N_a>>}

RECURSIVE Normalize(_, _)
\* Path.resolve() of base / rel: ".." steps to the parent, the root is its own parent
Normalize(base, rel) ==
    IF rel = <<>> THEN base
    ELSE IF Head(rel) = Up
         THEN Normalize(IF base = <<>> THEN base ELSE Parent(base), Tail(rel))
         ELSE Normalize(Append(base, Head(rel)), Tail(rel))

RECURSIVE Str(_)
\* str(path): the text of an absolute path, "/" before each name
Str(path) == IF path = <<>> THEN <<>> ELSE <<"/">> \o Head(path) \o Str(Tail(path))

\* text.startswith(prefix)
StrStartsWith(text, prefix) ==
    Len(text) >= Len(prefix) /\ SubSeq(text, 1, Len(prefix)) = prefix

\* resolve_within_lib_root(relative_path): ok = FALSE stands for the ValueError
resolve_within_lib_root(relative_path) ==
    LET candidate == Normalize(AbsRoot, relative_path)
        root == AbsRoot
    IN  IF ~StrStartsWith(Str(candidate), Str(root))
        THEN [ok |-> FALSE, path |-> <<>>]
        ELSE [ok |-> TRUE, path |-> candidate]

ResolveCall ==
    /\ tool # <<>> /\ tool.op = "resolve" /\ tool.outcome = "none"
    /\ LET r == resolve_within_lib_root(tool.src)
       IN  tool' = [tool EXCEPT !.outcome = IF r.ok THEN "returned" ELSE "raised",
                                !.result = r.path]
    /\ UNCHANGED <<fsvars, gvars, pipe, refs, init, index>>

\* Path.exists() and Path.is_dir() on a disk
Exists(disk, p) == p \in DOMAIN disk \/ p \in DiskDirs \/ \E q \in DOMAIN disk : IsUnder(p, q)
IsDirOnDisk(disk, p) == p \notin DOMAIN disk /\ Exists(disk, p)

\* shutil.move(source, destination) for a destination that does not exist
MoveTree(disk, s, t) ==
    LET moved(q) == q = s \/ IsUnder(s, q)
        target(q) == t \o SubSeq(q, Len(s) + 1, Len(q))
        stay == {q \in DOMAIN disk : ~moved(q)}
        go == {q \in DOMAIN disk : moved(q)}
    IN  [q \in stay \cup {target(x) : x \in go} |->
            IF q \in stay THEN disk[q]
            ELSE disk[CHOOSE x \in go : target(x) = q]]

\* move_lib_item(source_relative_path, destination_relative_path): the outcome for the
\* caller and the disk afterwards; deps is the answer of analyze_file_dependencies
MoveLibItemCall(disk, source, destination, deps) ==
    LET rs == resolve_within_lib_root(source)
        rd == resolve_within_lib_root(destination)
    IN  IF ~rs.ok \/ ~rd.ok
        THEN \* line 332 reads source_path or destination_path, never assigned
             [outcome |-> "raised", disk |-> disk]
        ELSE IF ~Exists(disk, rs.path) \/ Exists(disk, rd.path)
        THEN [outcome |-> "error", disk |-> disk]
        ELSE IF \/ \E k \in 1..(Len(rd.path) - 1) : SubSeq(rd.path, 1, k) \in DOMAIN disk
                \/ IsDirOnDisk(disk, rs.path) /\ IsUnder(rs.path, rd.path)
        THEN \* mkdir below a regular file, or a directory moved into itself
             [outcome |-> "raised", disk |-> disk]
        ELSE LET moved == MoveTree(disk, rs.path, rd.path)
                 is_undelete == \E i \in 1..Len(source) : NameContains(source[i], Marker)
                 is_python_file == destination # <<>> /\ EndsWithPy(destination)
             IN  [outcome |-> "moved",
                  disk |-> IF is_undelete /\ is_python_file
                           THEN AutoUndelete(moved, {AbsRoot \o d : d \in deps})
                           ELSE moved]

MoveCall ==
    /\ tool # <<>> /\ tool.op = "move" /\ tool.outcome = "none"
    /\ \E deps \in SUBSET {<<N_a>>} :
        LET r == MoveLibItemCall(tool.disk, tool.src, tool.dst, deps)
        IN  tool' = [tool EXCEPT !.outcome = r.outcome, !.disk = r.disk]
    /\ UNCHANGED <<fsvars, gvars, pipe, refs, init, index>>

\* the file the operating system opens for base / rel: every step goes through a
\* directory that exists, ".." steps to its parent (found = FALSE: no such file)
RECURSIVE OsLocate(_, _, _)
OsLocate(disk, base, rel) ==
    IF rel = <<>> THEN [found |-> Exists(disk, base), path |-> base]
    ELSE IF ~IsDirOnDisk(disk, base) THEN [found |-> FALSE, path |-> base]
    ELSE IF Head(rel) = Up
         THEN OsLocate(disk, IF base = <<>> THEN base ELSE Parent(base), Tail(rel))
         ELSE OsLocate(disk, Append(base, Head(rel)), Tail(rel))

\* the text of a file on a disk of the file tools: its lines
FileText(p) == <<<<"line 1 of">> \o Str(p), <<"line 2 of">> \o Str(p)>>
Replacements == {<<>>, <<<<"new line">>>>}
LineNumbers == 0..(Len(FileText(AbsRoot)) + 1)

\* read_file(relative_path): the outcome for the caller and the files read
read_file(disk, relative_path) ==
    LET path == OsLocate(disk, AbsRoot, relative_path)
    IN  IF ~path.found
        THEN [outcome |-> "raised", read |-> {}, text |-> <<>>]
        ELSE IF path.path \notin DOMAIN disk
        THEN \* read_text() of a directory
             [outcome |-> "raised", read |-> {}, text |-> <<>>]
        ELSE [outcome |-> "returned", read |-> {path.path}, text |-> disk[path.path]]

\* lines[start_line - 1 : end_line] = replacement
SliceAssign(lines, start_line, end_line, replacement) ==
    LET stop == IF end_line > Len(lines) THEN Len(lines) ELSE end_line
    IN  SubSeq(lines, 1, start_line - 1) \o replacement \o SubSeq(lines, stop + 1, Len(lines))

\* replace_text(relative_path, start_line, end_line, replacement): the outcome for
\* the caller, the disk afterwards, the files read and the files written
replace_text(disk, relative_path, start_line, end_line, replacement) ==
    LET path == OsLocate(disk, AbsRoot, relative_path)
        original == read_file(disk, relative_path)
    IN  IF ~path.found
        THEN [outcome |-> "error", disk |-> disk, read |-> {}, written |-> {}]
        ELSE IF original.outcome = "raised"
        THEN [outcome |-> "raised", disk |-> disk, read |-> {}, written |-> {}]
        ELSE IF start_line < 1 \/ end_line < start_line \/ start_line > Len(original.text)
        THEN [outcome |-> "error", disk |-> disk, read |-> original.read, written |-> {}]
        ELSE [outcome |-> "done",
              disk |-> [disk EXCEPT ![path.path] =
                            SliceAssign(original.text, start_line, end_line, replacement)],
              read |-> original.read, written |-> {path.path}]

ReadCall ==
    /\ tool # <<>> /\ tool.op = "read" /\ tool.outcome = "none"
    /\ LET r == read_file(tool.disk, tool.src)
       IN  tool' = [tool EXCEPT !.outcome = r.outcome, !.read = r.read, !.result = r.text]
    /\ UNCHANGED <<fsvars, gvars, pipe, refs, init, index>>

ReplaceCall ==
    /\ tool # <<>> /\ tool.op = "replace" /\ tool.outcome = "none"
    /\ LET r == replace_text(tool.disk, tool.src, tool.start_line, tool.end_line,
                             tool.replacement)
       IN  tool' = [tool EXCEPT !.outcome = r.outcome, !.disk = r.disk,
                                !.read = r.read, !.written = r.written]
    /\ UNCHANGED <<fsvars, gvars, pipe, refs, init, index>>

(***************************************************************************)
(* The rewriting of an __init__.py (comment_removed_imports_inits.py).     *)
(* A text is its physical lines and whether it ends with a newline.  A     *)
(* line is a plain line, the first line of an import statement with the    *)
(* names it imports (all on that line), or a further line of a             *)
(* parenthesised import.  block tells an import statement nested in a      *)
(* try/if block at module level: not an element of ast.Module.body, but    *)
(* its names are module-level names for the resolver.  tags counts the     *)
(* marker tags in front of the line (a tagged line is a comment).  no is   *)
(* the number of the line in the first text, to tell plain lines apart.    *)
(* code tells an import statement that shares its physical line with       *)
(* another statement ("import a; x = 1").                                  *)
(***************************************************************************)
ImportedNames ==
    {<<[n |-> "a", as |-> FALSE]>>,
     <<[n |-> "a", as |-> TRUE]>>,
     <<[n |-> "a", as |-> FALSE], [n |-> "b", as |-> FALSE]>>}

LinesAt(i) ==
    {[kind |-> "code", names |-> <<>>, block |-> FALSE, tags |-> 0, no |-> i, code |-> FALSE],
     [kind |-> "cont", names |-> <<>>, block |-> FALSE, tags |-> 0, no |-> i, code |-> FALSE],
     [kind |-> "import", names |-> <<[n |-> "a", as |-> FALSE]>>, block |-> FALSE,
      tags |-> 0, no |-> i, code |-> TRUE]}
    \cup {[kind |-> "import", names |-> ns, block |-> b, tags |-> 0, no |-> i, code |-> FALSE] :
            ns \in ImportedNames, b \in BOOLEAN}

\* the line that starts the statement a continuation line belongs to (0: none)
Owner(lines, i) ==
    LET before == {j \in 1..(i - 1) : lines[j].kind # "cont"}
    IN  IF before = {} THEN 0 ELSE CHOOSE j \in before : \A k \in before : k <= j

\* the texts a package can hold: a continuation line follows an import statement
Texts ==
    {t \in [lines : UNION {{l \in [1..n -> UNION {LinesAt(i) : i \in 1..n}] :
                                \A i \in 1..n : l[i] \in LinesAt(i)} : n \in 1..MaxText},
            nl : BOOLEAN] :
        \A i \in 1..Len(t.lines) :
            t.lines[i].kind = "cont" =>
                /\ Owner(t.lines, i) # 0
                /\ t.lines[Owner(t.lines, i)].kind = "import"
                /\ ~t.lines[Owner(t.lines, i)].code}

\* ast.parse accepts the text: no continuation line is left behind a tagged line
Parsable(t) ==
    \A i \in 1..Len(t.lines) :
        t.lines[i].kind = "cont" => t.lines[Owner(t.lines, i)].tags = 0

\* the Import / ImportFrom nodes of tree.body: their first lines
BodyImports_all(lines) ==
    {i \in 1..Len(lines) : lines[i].kind = "import" /\ lines[i].tags = 0}

BodyImports(lines) ==
    {i \in 1..Len(lines) :
        lines[i].kind = "import" /\ lines[i].tags = 0 /\ ~lines[i].block}

NewImports_unsplit(line) == <<line>>

\* lines 14-17, 22-25: one "import name" / "from module import name" per alias, the
\* asname left out
NewImports(line) ==
    [k \in 1..Len(line.names) |->
        [line EXCEPT !.names = <<[n |-> line.names[k].n, as |-> FALSE]>>, !.code = FALSE]]

RECURSIVE SplitFrom(_, _)
\* lines 29-36: the lines from number i on
SplitFrom(lines, i) ==
    IF i > Len(lines) THEN <<>>
    ELSE IF i \in BodyImports(lines)
         THEN NewImports(lines[i]) \o SplitFrom(lines, i + 1)
    ELSE IF lines[i].kind = "cont" /\ Owner(lines, i) \in BodyImports(lines)
         THEN SplitFrom(lines, i + 1)
    ELSE <<lines[i]>> \o SplitFrom(lines, i + 1)

\* split_imports(code)
split_imports(t) == [lines |-> SplitFrom(t.lines, 1), nl |-> t.nl]

\* comment_text(path, line, line): splitlines, the tag in front, "\n".join
comment_text(t, line) ==
    [lines |-> [t.lines EXCEPT ![line].tags = @ + 1], nl |-> FALSE]

RECURSIVE CommentAll(_, _)
CommentAll(t, broken) ==
    IF broken = {} THEN t
    ELSE LET b == CHOOSE x \in broken : TRUE
         IN  CommentAll(comment_text(t, b[1]), broken \ {b})

\* the names the resolver can report as not found: <<line, position>> of a name of an
\* import statement at module level
ImportNamesOf(t) ==
    {<<i, k>> : i \in BodyImports_all(t.lines), k \in 1..2} \cap
    {b \in (1..Len(t.lines)) \X (1..2) : b[2] <= Len(t.lines[b[1]].names)}

NoBackup == [lines |-> <<>>, nl |-> FALSE]

\* single_import_per_line(path): the backup is written, then the file is rewritten;
\* split_imports raises SyntaxError on a text that does not parse
SingleImportPerLine ==
    /\ init # <<>> /\ init.phase = "idle" /\ init.runs < MaxRuns
    /\ init' = [init EXCEPT !.backup = init.text,
                            !.before = init.text,
                            !.text = IF Parsable(init.text) THEN split_imports(init.text) ELSE @,
                            !.phase = IF Parsable(init.text) THEN "split" ELSE "idle",
                            !.runs = @ + 1,
                            !.hist = Append(@, IF Parsable(init.text) THEN "split" ELSE "raised")]
    /\ UNCHANGED <<fsvars, gvars, pipe, refs, tool, index>>

\* find_broken_imports(path, path_python_exec): in clean_init_files after
\* single_import_per_line, or called on a file as it is
FindBrokenImports ==
    /\ init # <<>> /\ init.phase \in {"idle", "split"}
    /\ init.phase = "idle" => init.runs < MaxRuns
    /\ \E broken \in SUBSET ImportNamesOf(init.text) :
        init' = [init EXCEPT !.before = init.text,
                             !.broken = broken,
                             !.text = CommentAll(init.text, broken),
                             !.phase = "idle",
                             !.runs = IF init.phase = "idle" THEN @ + 1 ELSE @,
                             !.hist = Append(@, IF init.phase = "idle" THEN "annotate alone"
                                                ELSE "annotate")]
    /\ UNCHANGED <<fsvars, gvars, pipe, refs, tool, index>>

\* restore_init_files_to_initial(folder_path)
RestoreInit ==
    /\ init # <<>> /\ init.phase = "idle" /\ init.hist # <<>>
    /\ init.hist[Len(init.hist)] # "restore"
    /\ init' = [init EXCEPT !.text = IF init.backup = NoBackup THEN @ ELSE init.backup,
                            !.hist = Append(@, "restore")]
    /\ UNCHANGED <<fsvars, gvars, pipe, refs, tool, index>>

(***************************************************************************)
(* extract_used_files: the nested mapping built from the paths of a tree.  *)
(* The mapping is kept flat: key path below site-packages -> "FILE" (the   *)
(* string leaf) or "DICT" (a nested mapping).                              *)
(***************************************************************************)
N_core == <<"core">>
N_z == <<"z", ".py">>

\* the files a tree can point to: in the package, in another package, outside
\* site-packages; core/core is a file named like its directory
IndexPaths ==
    {G_a, LibRoot \o <<N_core, N_a>>, LibRoot \o <<N_core, N_core>>,
     LibRoot \o <<N_core, N_z>>, G_other, G_user}

\* the place of a name in the order of str
NameRank(n) ==
    CASE n = N_a -> 1
      [] n = N_b -> 2
      [] n = N_core -> 3
      [] n = DemoLibName -> 4
      [] n = <<"other">> -> 5
      [] n = SitePackages -> 6
      [] n = <<"user_file", ".py">> -> 7
      [] n = <<"user_input">> -> 8
      [] n = N_z -> 9
      [] OTHER -> 10

RECURSIVE PathLess(_, _)
PathLess(p, q) ==
    IF p = <<>> THEN q # <<>>
    ELSE IF q = <<>> THEN FALSE
    ELSE IF p[1] = q[1] THEN PathLess(Tail(p), Tail(q))
    ELSE NameRank(p[1]) < NameRank(q[1])

RECURSIVE SortedPaths(_)
\* sorted(set(l_paths))
SortedPaths(S) ==
    IF S = {} THEN <<>>
    ELSE LET m == CHOOSE x \in S : \A y \in S \ {x} : PathLess(x, y)
         IN  <<m>> \o SortedPaths(S \ {m})

\* _path.split('site-packages/')[1].split('/'); <<>> when the path has no such part
AfterSitePackages(path) ==
    IF \E k \in 1..Len(path) : path[k] = SitePackages
    THEN LET k == CHOOSE j \in 1..Len(path) :
                    path[j] = SitePackages /\ \A h \in 1..(j - 1) : path[h] # SitePackages
         IN  SubSeq(path, k + 1, Len(path))
    ELSE <<>>

RECURSIVE InsertPath(_, _, _)
\* lines 280-286, from segment k on: setdefault, then position = position[i]; a
\* setdefault on the string 'FILE' raises AttributeError
InsertPath(d, arbo, k) ==
    IF k > Len(arbo) THEN [dpaths |-> d, raised |-> FALSE]
    ELSE LET key == SubSeq(arbo, 1, k)
             value == IF arbo[k] = arbo[Len(arbo)] THEN "FILE" ELSE "DICT"
             d2 == IF key \in DOMAIN d THEN d ELSE Put(d, key, value)
         IN  IF k < Len(arbo) /\ d2[key] # "DICT"
             THEN [dpaths |-> d2, raised |-> TRUE]
             ELSE InsertPath(d2, arbo, k + 1)

RECURSIVE InsertAll(_, _)
InsertAll(d, todo) ==
    IF todo = <<>> THEN [dpaths |-> d, raised |-> FALSE]
    ELSE LET r == InsertPath(d, AfterSitePackages(Head(todo)), 1)
         IN  IF r.raised THEN r ELSE InsertAll(r.dpaths, Tail(todo))

\* extract_used_files, given what get_all_paths returned
extract_used_files(paths) == InsertAll(<<>>, SortedPaths(paths))

ExtractUsedFiles ==
    /\ index # <<>> /\ index.outcome = "none"
    /\ LET r == extract_used_files(GetAllPaths(index.probable))
       IN  index' = [index EXCEPT !.dpaths = r.dpaths,
                                  !.outcome = IF r.raised THEN "raised" ELSE "returned"]
    /\ UNCHANGED <<fsvars, gvars, pipe, refs, tool, init>>

(***************************************************************************)
(* Vocabulary of the properties.                                           *)
(***************************************************************************)
EndsWith(seq) ==
    /\ pc = "idle"
    /\ Len(ops) >= Len(seq)
    /\ SubSeq(ops, Len(ops) - Len(seq) + 1, Len(ops)) = seq

NoMarkerNames(f) == \A p \in DOMAIN f : ~NameContains(Base(p), Marker)

UsedLeaf(k, p) == p \in DOMAIN k /\ k[p] = "FILE"
UsedLeavesUnder(k, d) == {q \in DOMAIN k : IsUnder(d, q) /\ k[q] = "FILE"}
IsUsedPathIndex(k) == k = IndexOf({p \in DOMAIN k : k[p] = "FILE"})

Sibling(p) == Join(Parent(p), <<Marker>> \o Base(p))
AtOriginal(f, p, bytes) == p \in DOMAIN f /\ f[p] = bytes
OnlySoftDeleted(f, p, bytes) ==
    p \notin DOMAIN f /\ Sibling(p) \in DOMAIN f /\ f[Sibling(p)] = bytes

TotalBytes(f) == SumSize(f, DOMAIN f)
MarkedBytes(f) == SumSize(f, {p \in DOMAIN f : PathContainsMarker(p)})
UnmarkedBytes(f) == SumSize(f, {p \in DOMAIN f : ~PathContainsMarker(p)})
NumMarked(f) == Cardinality({p \in DOMAIN f : PathContainsMarker(p)})
Dist(a, b) == IF a >= b THEN a - b ELSE b - a

TypeOK ==
    /\ pc \in {"idle", "prune", "copied"}
    /\ \A p \in DOMAIN to_keep : to_keep[p] \in {"FILE", "DELETED", "DICT"}
    /\ \A p \in DOMAIN to_keep : (p \in Dirs) = (to_keep[p] = "DICT")
    /\ (pc = "idle") = (stack = <<>>)
    /\ Len(ops) <= MaxOps

\* the renames of a restore-all never meet: their order does not matter
RestoreOrderFree ==
    LET del == {p \in DOMAIN files : IsDeletedFile(p)}
        target(p) == Join(Parent(p), RemoveFirst(Base(p), Marker))
    IN  /\ \A p, q \in del : p # q => target(p) # target(q)
        /\ \A p \in del : target(p) \notin del

(***************************************************************************)
(* C1: round trip.  As stated, for any tree: a prune followed at once by   *)
(* restore-all gives back the files, bytes and total size of before the    *)
(* prune.                                                                  *)
(***************************************************************************)
C1_RoundTripAnyTree ==
    EndsWith(<<"prune", "restore">>) =>
        files = snapFiles /\ TotalBytes(files) = TotalBytes(snapFiles)

\* C1 as amended: the same, for a tree in which no file name contains the marker
\* when the prune starts.
C1_RoundTrip ==
    (EndsWith(<<"prune", "restore">>) /\ NoMarkerNames(snapFiles)) =>
        files = snapFiles /\ TotalBytes(files) = TotalBytes(snapFiles)

C1_Witness ==
    /\ EndsWith(<<"prune", "restore">>)
    /\ NoMarkerNames(snapFiles)
    /\ passOps >= 4
    /\ <<N_sub, N_c>> \in DOMAIN snapFiles /\ ~UsedLeaf(snapKeep, <<N_sub, N_c>>)
    /\ files = snapFiles

(***************************************************************************)
(* C2: no data loss before confirmation.  In every state, the one between  *)
(* copy2 and os.remove included, as long as the permanent removal has not  *)
(* been called every file of the installation is at its original path or   *)
(* at its marker-prefixed sibling, with its original bytes.                *)
(***************************************************************************)
C2_NoLossBeforeConfirm ==
    ~confirmed =>
        \A p \in DOMAIN orig :
            AtOriginal(files, p, orig[p])
                \/ (Sibling(p) \in DOMAIN files /\ files[Sibling(p)] = orig[p])

C2_Witness ==
    /\ pc = "copied"
    /\ ~confirmed
    /\ Len(ops) >= 2
    /\ "restore_one" \in {ops[i] : i \in 1..Len(ops)}
    /\ \E p \in DOMAIN orig : OnlySoftDeleted(files, p, orig[p])

(***************************************************************************)
(* C3: idempotence of pruning.  A pass run right after a pass, with the    *)
(* same used-path index, ends with the files of the first pass and has     *)
(* copied and removed nothing.                                             *)
(***************************************************************************)
C3_SecondPassChangesNothing ==
    (Len(ops) >= 1 /\ ops[Len(ops)] = "prune" /\ pc # "idle") =>
        (files = snapFiles /\ passOps = 0)

(***************************************************************************)
(* C4: prune correctness.  After a pass on a tree without marker names     *)
(* and with a used-path index, a file other than __init__.py is at its     *)
(* original path exactly when its relative path is a FILE leaf of the      *)
(* index; otherwise it exists only as its marker-prefixed sibling, same    *)
(* bytes.  Files of directories absent from the index included.            *)
(***************************************************************************)
C4_PruneCorrect ==
    (EndsWith(<<"prune">>) /\ NoMarkerNames(snapFiles) /\ IsUsedPathIndex(snapKeep)) =>
        \A p \in DOMAIN snapFiles :
            Base(p) # N_init =>
                IF UsedLeaf(snapKeep, p)
                THEN AtOriginal(files, p, snapFiles[p]) /\ Sibling(p) \notin DOMAIN files
                ELSE OnlySoftDeleted(files, p, snapFiles[p])

C4_Witness ==
    /\ EndsWith(<<"prune">>) /\ NoMarkerNames(snapFiles) /\ IsUsedPathIndex(snapKeep)
    /\ UsedLeaf(snapKeep, <<N_a>>) /\ AtOriginal(files, <<N_a>>, <<N_a>>)
    /\ <<N_b>> \in DOMAIN snapFiles /\ OnlySoftDeleted(files, <<N_b>>, <<N_b>>)
    /\ SubDir \notin DOMAIN snapKeep
    /\ <<N_sub, N_c>> \in DOMAIN snapFiles /\ OnlySoftDeleted(files, <<N_sub, N_c>>, <<N_sub, N_c>>)

(***************************************************************************)
(* C5: init-file policy, keep side.  In a directory whose index entry      *)
(* holds at least one used leaf, __init__.py is never copied away, listed  *)
(* in the index or not, and is still in place when the pass ends.          *)
(***************************************************************************)
C5_InitKept ==
    /\ (pc = "copied" /\ Base(cur) = N_init) => UsedLeavesUnder(to_keep, Parent(cur)) = {}
    /\ \A d \in Dirs :
        (/\ pc = "idle" /\ Len(ops) >= 1 /\ ops[Len(ops)] = "prune"
         /\ Join(d, N_init) \in DOMAIN snapFiles
         /\ UsedLeavesUnder(snapKeep, d) # {})
            => AtOriginal(files, Join(d, N_init), snapFiles[Join(d, N_init)])

C5_Witness ==
    /\ EndsWith(<<"prune">>)
    /\ <<N_init>> \in DOMAIN snapFiles
    /\ <<N_init>> \notin DOMAIN snapKeep
    /\ UsedLeavesUnder(snapKeep, RootDir) = {<<N_sub, N_c>>}
    /\ passOps > 0
    /\ AtOriginal(files, <<N_init>>, <<N_init>>)

(***************************************************************************)
(* C6: init-file policy, prune side.  After a pass on a tree without       *)
(* marker names, in a directory whose index entry holds no used leaf,      *)
(* __init__.py is soft-deleted like any other unused file, whatever the    *)
(* listing order and the other names of the directory.                     *)
(***************************************************************************)
C6_InitPruned ==
    (EndsWith(<<"prune">>) /\ NoMarkerNames(snapFiles) /\ IsUsedPathIndex(snapKeep)) =>
        \A d \in Dirs :
            (Join(d, N_init) \in DOMAIN snapFiles /\ UsedLeavesUnder(snapKeep, d) = {})
                => OnlySoftDeleted(files, Join(d, N_init), snapFiles[Join(d, N_init)])

DemoLib ==
    /\ DOMAIN orig = {<<N_a>>, <<N_b>>, <<N_sub, N_c>>}
    /\ used = {<<N_a>>, <<N_sub, N_c>>}

DemoPruned ==
    /\ DOMAIN files = {<<N_a>>, <<(<<Marker>> \o N_b)>>, <<N_sub, N_c>>}
    /\ files[<<N_a>>] = orig[<<N_a>>]
    /\ files[<<N_sub, N_c>>] = orig[<<N_sub, N_c>>]
    /\ files[<<(<<Marker>> \o N_b)>>] = orig[<<N_b>>]

C8_Scenario ==
    DemoLib =>
        /\ (pc = "idle" /\ ops = <<"prune">>) => DemoPruned
        /\ (pc = "idle" /\ ops = <<"prune", "report">>) =>
                (DemoPruned /\ report.total = 3 /\ report.deleted = 1 /\ report.deleted_pct = 333)

C8_Witness ==
    DemoLib /\ pc = "idle" /\ ops = <<"prune", "report">> /\ report.deleted_pct = 333

(***************************************************************************)
(* C9: acyclicity and dedup.  As stated: the tree holds exactly one Tree   *)
(* node per distinct resolved path, several names of one file reaching the *)
(* same defining file included; a further discovery of a known path only   *)
(* appends to other_parents.                                               *)
(***************************************************************************)
ResolvedPaths == {nodes[i].path : i \in {j \in DOMAIN nodes : nodes[j].path # NoPath}}

C9_OneNodePerPath ==
    \A i, j \in DOMAIN nodes :
        (nodes[i].path # NoPath /\ nodes[i].path = nodes[j].path) => i = j

(***************************************************************************)
(* C10: termination.  recursive_analysis returns, circular imports         *)
(* included, and the nesting of its calls never exceeds the number of      *)
(* distinct resolved files: the files of the calls in progress are         *)
(* pairwise distinct.                                                      *)
(***************************************************************************)
C10_DepthBound ==
    /\ Len(gstack) <= Cardinality(ResolvedPaths)
    /\ maxDepth <= Cardinality(ResolvedPaths)
    /\ \A i, j \in 1..Len(gstack) :
        nodes[gstack[i].node].path = nodes[gstack[j].node].path => i = j

C10_Terminates == []C10_DepthBound /\ <>GDone

C10_Witness ==
    /\ GDone
    /\ maxDepth = 3
    /\ G_a \in DOMAIN answers /\ G_b \in DOMAIN answers
    /\ \E e \in answers[G_a] : e.target = G_b
    /\ \E e \in answers[G_b] : e.target = G_a
    /\ \E e \in answers[G_b] : e.target = G_user

(***************************************************************************)
(* C11: heuristic fallback.  In run_main_pipeline, for an import foo_ext   *)
(* that was not resolved, from a file whose directory holds                *)
(* foo_ext.<platform-tag>.<ext>: that file is in the node's                *)
(* probable_paths, is a FILE leaf of the index handed to the pruner, and   *)
(* is still in place with its bytes after the pass.                        *)
(***************************************************************************)
UnresolvedExt(i) ==
    /\ nodes[i].not_found /\ nodes[i].name = ExtName /\ nodes[i].parent # 0
    /\ Parent(nodes[nodes[i].parent].path) = LibRoot
    /\ <<N_ext>> \in DOMAIN orig

C11_HeuristicKept ==
    (/\ pipe # <<>> /\ pipe.entry = "run_main_pipeline"
     /\ pc = "idle" /\ ops # <<>> /\ ops[1] = "prune") =>
        \A i \in DOMAIN nodes :
            UnresolvedExt(i) =>
                /\ (LibRoot \o <<N_ext>>) \in pipe.probable[i]
                /\ UsedLeaf(snapKeep, <<N_ext>>)
                /\ AtOriginal(files, <<N_ext>>, orig[<<N_ext>>])

\* the same with the __main__ block, which calls guess_probable_path
MainHeuristicKept ==
    (/\ pipe # <<>> /\ pipe.entry = "__main__"
     /\ pc = "idle" /\ ops # <<>> /\ ops[1] = "prune") =>
        \A i \in DOMAIN nodes :
            UnresolvedExt(i) =>
                /\ (LibRoot \o <<N_ext>>) \in pipe.probable[i]
                /\ UsedLeaf(snapKeep, <<N_ext>>)
                /\ AtOriginal(files, <<N_ext>>, orig[<<N_ext>>])

(***************************************************************************)
(* C12: wildcard disambiguation.  get_references returns as wildcard       *)
(* imports exactly the module references on whose line no bound name is    *)
(* reported and whose source line holds neither '(' nor ')'.               *)
(***************************************************************************)
C12_Wildcard ==
    (refs # <<>> /\ refs.done) =>
        /\ refs.wildcard_imports \subseteq refs.names_references
        /\ \A r \in refs.names_references :
            (r \in refs.wildcard_imports) <=>
                (/\ r.line \notin refs.n_lines
                 /\ ~refs.lines[r.line].open
                 /\ ~refs.lines[r.line].close)

C12_Witness ==
    /\ refs # <<>> /\ refs.done
    /\ \E r \in refs.wildcard_imports : r.line \notin refs.n_lines
    /\ \E r \in refs.names_references :
        /\ r.line \notin refs.n_lines
        /\ refs.lines[r.line].close /\ ~refs.lines[r.line].open
        /\ r \notin refs.wildcard_imports

(***************************************************************************)
(* C13: path-escape check.  resolve_within_lib_root raises for every       *)
(* relative path whose resolved location is neither the library root nor   *)
(* below it, and returns the resolved location for every other path.       *)
(***************************************************************************)
InsideRoot(p) == p = AbsRoot \/ IsUnder(AbsRoot, p)

C13_EscapeRefused ==
    (tool # <<>> /\ tool.op = "resolve" /\ tool.outcome # "none") =>
        LET located == Normalize(AbsRoot, tool.src) IN
        IF InsideRoot(located)
        THEN tool.outcome = "returned" /\ tool.result = located
        ELSE tool.outcome = "raised"

(***************************************************************************)
(* C14: restore-one refusal.  move_lib_item with a source or destination   *)
(* outside the library root, a source that does not exist or a destination *)
(* that exists returns an error message, does not raise, and leaves the    *)
(* files under the library root as they were.                              *)
(***************************************************************************)
UnderRoot(disk) == [q \in {x \in DOMAIN disk : InsideRoot(x)} |-> disk[q]]

MustRefuse ==
    LET s == Normalize(AbsRoot, tool.src)
        d == Normalize(AbsRoot, tool.dst)
    IN  \/ ~InsideRoot(s) \/ ~InsideRoot(d)
        \/ ~Exists(tool.disk0, s)
        \/ Exists(tool.disk0, d)

C14_RefusalReturnsError ==
    (tool # <<>> /\ tool.op = "move" /\ tool.outcome # "none" /\ MustRefuse) =>
        /\ tool.outcome = "error"
        /\ UnderRoot(tool.disk) = UnderRoot(tool.disk0)

\* what does hold: a refusal never changes the disk
RefusalChangesNothing ==
    (tool # <<>> /\ tool.op = "move" /\ tool.outcome \in {"error", "raised"}) =>
        tool.disk = tool.disk0

(***************************************************************************)
(* C15: partial-failure tolerance.  When copy2 or os.remove fails for one  *)
(* entry, every other file (package-init files aside) is still pruned as   *)
(* by a pass without failure: a used leaf is in place, any other file      *)
(* exists only as its marker-prefixed sibling.                             *)
(***************************************************************************)
PrunedAsExpected(f, p) ==
    IF p \in used
    THEN AtOriginal(f, p, orig[p]) /\ Sibling(p) \notin DOMAIN f
    ELSE OnlySoftDeleted(f, p, orig[p])

C15_FailureConfined ==
    (pc = "idle" /\ ops = <<"prune_failed">>) =>
        \A p \in DOMAIN orig : (p # cur /\ Base(p) # N_init) => PrunedAsExpected(files, p)

(***************************************************************************)
(* C16: crash resumability.  After one or more interrupted passes, a pass  *)
(* that runs to its end on the same root, with the same used paths, ends   *)
(* with files and contents that a pass never interrupted can end with.     *)
(***************************************************************************)
\* what an uninterrupted pass on the installed files can end with: a package-init file
\* of a directory without used leaf stays when an entry whose name holds 'FILE' was
\* handled before it (has_file), and is soft-deleted otherwise
UninterruptedOutcome(f) ==
    /\ \A q \in DOMAIN f : \E p \in DOMAIN orig : q = p \/ q = Sibling(p)
    /\ \A p \in DOMAIN orig :
        IF Base(p) # N_init THEN PrunedAsExpected(f, p)
        ELSE IF UsedLeavesUnder(IndexOf(used), Parent(p)) # {}
        THEN AtOriginal(f, p, orig[p]) /\ Sibling(p) \notin DOMAIN f
        ELSE \/ OnlySoftDeleted(f, p, orig[p])
             \/ /\ AtOriginal(f, p, orig[p]) /\ Sibling(p) \notin DOMAIN f
                /\ \E q \in DOMAIN orig :
                    /\ IsUnder(Parent(p), q)
                    /\ \E i \in (Len(Parent(p)) + 1)..Len(q) : NameContains(q[i], LeafWord)

Interrupted(i) == ops[i] \in {"crash", "prune_failed"}

\* a pass never interrupted does end so
UninterruptedPass == (pc = "idle" /\ ops = <<"prune">>) => UninterruptedOutcome(files)

C16_Resumable ==
    (/\ pc = "idle" /\ Len(ops) >= 2 /\ ops[Len(ops)] = "prune"
     /\ \A i \in 1..(Len(ops) - 1) : Interrupted(i)) =>
        UninterruptedOutcome(files)

(***************************************************************************)
(* C17: pristine backup.  After one or more runs of clean_init_files       *)
(* (single_import_per_line, then find_broken_imports) the __INITIAL_ file  *)
(* holds the text of before the first run, and                             *)
(* restore_init_files_to_initial gives the init file that text back.       *)
(***************************************************************************)
CleanRuns(h) ==
    /\ Len(h) >= 2 /\ Len(h) % 2 = 0
    /\ \A i \in 1..Len(h) : h[i] = (IF i % 2 = 1 THEN "split" ELSE "annotate")

C17_PristineBackup ==
    init # <<>> =>
        /\ CleanRuns(init.hist) => init.backup = init.pristine
        /\ (/\ Len(init.hist) >= 3 /\ init.hist[Len(init.hist)] = "restore"
            /\ CleanRuns(SubSeq(init.hist, 1, Len(init.hist) - 1)))
                => init.text = init.pristine

(***************************************************************************)
(* C18: one import per line.  In the output of split_imports no import     *)
(* statement names more than one module or name, at top level or nested    *)
(* in a block, on one line or over several.                                *)
(***************************************************************************)
C18_OneImportPerLine ==
    (init # <<>> /\ init.phase = "split") =>
        \A i \in 1..Len(init.text.lines) :
            (init.text.lines[i].kind = "import" /\ init.text.lines[i].tags = 0)
                => Len(init.text.lines[i].names) = 1

(***************************************************************************)
(* C19: line-count parity.  As stated: the output of split_imports has as  *)
(* many lines as its input, so that every line outside an import keeps its *)
(* number.  One statement per line and an unchanged number of lines cannot *)
(* both hold for "import a, b".  What holds: the lines outside the import  *)
(* statements of the module body are kept, in their order, and the number  *)
(* of lines changes by, for each such statement, the number of its names   *)
(* less the number of lines it spanned.                                    *)
(***************************************************************************)
Span(lines, i) ==
    1 + Cardinality({j \in 1..Len(lines) : lines[j].kind = "cont" /\ Owner(lines, j) = i})

InBodyImport(lines, i) ==
    \/ i \in BodyImports(lines)
    \/ lines[i].kind = "cont" /\ Owner(lines, i) \in BodyImports(lines)

RECURSIVE OtherLines(_, _)
OtherLines(lines, i) ==
    IF i > Len(lines) THEN <<>>
    ELSE (IF InBodyImport(lines, i) THEN <<>> ELSE <<lines[i]>>) \o OtherLines(lines, i + 1)

RECURSIVE Growth(_, _)
Growth(lines, is) ==
    IF is = {} THEN 0
    ELSE LET i == CHOOSE x \in is : TRUE
         IN  Len(lines[i].names) - Span(lines, i) + Growth(lines, is \ {i})

Annotated ==
    /\ init # <<>> /\ init.hist # <<>>
    /\ init.hist[Len(init.hist)] \in {"annotate", "annotate alone"}

C20_TaggedOnce ==
    Annotated =>
        LET pointed == {b[1] : b \in init.broken} IN
        /\ Len(init.text.lines) = Len(init.before.lines)
        /\ \A i \in 1..Len(init.before.lines) :
            init.text.lines[i] = IF i \in pointed
                                 THEN [init.before.lines[i] EXCEPT !.tags = @ + 1]
                                 ELSE init.before.lines[i]

\* the same in clean_init_files, after single_import_per_line
C20_TaggedOnceInPipeline ==
    (Annotated /\ init.hist[Len(init.hist)] = "annotate") => C20_TaggedOnce

\* what does hold: each line is tagged once per not_found child that points to it
TaggedPerChild ==
    Annotated =>
        /\ Len(init.text.lines) = Len(init.before.lines)
        /\ \A i \in 1..Len(init.before.lines) :
            init.text.lines[i] =
                [init.before.lines[i] EXCEPT
                    !.tags = @ + Cardinality({b \in init.broken : b[1] = i})]

(***************************************************************************)
(* C21: idempotent restore.  A second re_add_virtualy_removed_files on the *)
(* same root changes nothing, and after the call no file whose name starts *)
(* with the marker is left under the root.                                 *)
(***************************************************************************)
C21_RestoreIdempotent ==
    /\ EndsWith(<<"restore">>) =>
        /\ \A p \in DOMAIN files : Base(p)[1] # Marker
        /\ ReAdd(files) = files
    /\ pc = "idle" => ReAdd(ReAdd(files)) = ReAdd(files)

\* two restores in a row after a pass that soft-deleted files in both directories
C21_Witness ==
    /\ EndsWith(<<"prune", "restore", "restore">>)
    /\ {<<N_a>>, <<N_sub, N_c>>} \subseteq DOMAIN snapFiles
    /\ ~UsedLeaf(snapKeep, <<N_a>>) /\ ~UsedLeaf(snapKeep, <<N_sub, N_c>>)
    /\ {<<N_a>>, <<N_sub, N_c>>} \subseteq DOMAIN files

(***************************************************************************)
(* C22: scope filter.  extract_imports runs on a node only if its file is  *)
(* the original root file or lies inside a package under analysis; a node  *)
(* whose path ends with __init__.py is never expanded and has no children. *)
(***************************************************************************)
InsidePackages(path) ==
    \E lib \in LibsToAnalyze :
        Len(path) > 2 /\ SubSeq(path, 1, 2) = <<SitePackages, <<lib>>>>

Extracting(i) == \E k \in 1..Len(gstack) : gstack[k].node = i /\ gstack[k].phase = "extract"

C22_ScopeFilter ==
    \A i \in DOMAIN nodes :
        /\ (Extracting(i) \/ nodes[i].children # {}) =>
                (nodes[i].path = InitialPath \/ InsidePackages(nodes[i].path))
        /\ EndsWithInit(nodes[i].path) => (~Extracting(i) /\ nodes[i].children = {})

\* the part on __init__.py alone
InitNeverExpanded ==
    \A i \in DOMAIN nodes :
        EndsWithInit(nodes[i].path) => (~Extracting(i) /\ nodes[i].children = {})

\* the filter as the code applies it: the name of a package occurs in the path
SubstringScope ==
    \A i \in DOMAIN nodes :
        (Extracting(i) \/ nodes[i].children # {}) =>
            (nodes[i].path = InitialPath \/ InLibs(nodes[i].path))

(***************************************************************************)
(* C23: memoization.  Within one run of recursive_analysis the imports of  *)
(* a resolved file path are extracted at most once: extract_imports never  *)
(* starts on a path it has already answered for.                           *)
(***************************************************************************)
ExtractStarts ==
    /\ gstack # <<>> /\ GTop.phase = "enter"
    /\ Len(gstack') = Len(gstack) /\ gstack'[Len(gstack')].phase = "extract"

C23_ExtractedOnce ==
    [][ExtractStarts => nodes[GTop.node].path \notin DOMAIN answers]_vars

\* the same while the tree holds one node per path
ExtractedOnceWithoutDuplicates ==
    [][(ExtractStarts /\ C9_OneNodePerPath) =>
            nodes[GTop.node].path \notin DOMAIN answers]_vars

(***************************************************************************)
(* C24: resolution failure is data.  Once extract_imports has returned for *)
(* a file, every reference of the file the resolver gave no definition     *)
(* for, or a module definition without a file, has a child with not_found  *)
(* set that carries the name, the import name and the line of the          *)
(* reference; and every other reference of the file has been handled: its  *)
(* file is in the tree.  No path of the code raises.                       *)
(***************************************************************************)
Expanded(i) ==
    /\ nodes[i].path # NoPath /\ ~EndsWithInit(nodes[i].path)
    /\ nodes[i].path \in DOMAIN answers
    /\ \/ nodes[i].analyzed
       \/ \E k \in 1..Len(gstack) : gstack[k].node = i /\ gstack[k].phase = "loop"
       \/ i = 1 /\ gstack = <<>>

C24_FailureIsData ==
    \A i \in DOMAIN nodes :
        Expanded(i) =>
            \A e \in answers[nodes[i].path] :
                IF IsResolved(e)
                THEN \E j \in DOMAIN nodes : nodes[j].path = e.target /\ ~nodes[j].not_found
                ELSE \E c \in nodes[i].children :
                        /\ nodes[c].not_found /\ nodes[c].path = NoPath
                        /\ nodes[c].name = e.full /\ nodes[c].module = e.module
                        /\ nodes[c].line = e.line /\ nodes[c].parent = i
                        /\ nodes[c].children = {}

\* the analysis has returned for a file with a reference that failed and one that
\* resolved, and for a file with the two kinds of failure
C24_Witness ==
    /\ gstack = <<>>
    /\ \E i \in DOMAIN nodes :
        /\ Expanded(i)
        /\ \E e, e2 \in answers[nodes[i].path] :
            /\ e.target = NoModulePath
            /\ IsResolved(e2) /\ e2.target # nodes[i].path
    /\ \E i \in DOMAIN nodes :
        /\ Expanded(i)
        /\ \E e, e2 \in answers[nodes[i].path] :
            e.target = NoDefinition /\ e2.target = NoModulePath

(***************************************************************************)
(* C25: used-path index.  extract_used_files returns the mapping in which  *)
(* a path below site-packages ends in the leaf 'FILE' exactly when it is   *)
(* the path of a resolved node or a probable path of an unresolved node,   *)
(* and every segment before the last is a nested mapping, also when a      *)
(* directory has the name of the final segment.                            *)
(***************************************************************************)
UsedLeaves == {AfterSitePackages(q) : q \in GetAllPaths(index.probable)} \ {<<>>}

C25_UsedPathIndex ==
    (index # <<>> /\ index.outcome # "none") =>
        /\ index.outcome = "returned"
        /\ index.dpaths = IndexOf(UsedLeaves)

\* a directory segment with the name of the final segment
RepeatsLastName(p) == \E k \in 1..(Len(p) - 1) : p[k] = p[Len(p)]

\* the same for trees without such a path
IndexWithoutRepeatedNames ==
    (index # <<>> /\ index.outcome # "none" /\ \A p \in UsedLeaves : ~RepeatsLastName(p)) =>
        /\ index.outcome = "returned"
        /\ index.dpaths = IndexOf(UsedLeaves)

(***************************************************************************)
(* C26: stub expansion.  After stub_add_compiled_file every node whose     *)
(* path or probable path is a .pyi file has is_stub set, the children of   *)
(* its parent hold a node for every file of the stub's directory with the  *)
(* base name of the stub and another extension, and none of the nodes      *)
(* added is for a file with another base name.                             *)
(***************************************************************************)
Stubbed == pipe # <<>> /\ pipe.entry = "stub_add_compiled_file" /\ pipe.phase = "stubbed"

SameBaseFiles(p) ==
    {Join(Parent(p), e) : e \in {x \in OsListDir(files, Parent(p)) :
                                    HasBaseName(x, BaseName(Base(p))) /\ x # Base(p)}}

C26_StubExpansion ==
    Stubbed =>
        \A i \in DOMAIN nodes :
            StubPaths(i) # {} =>
                /\ pipe.is_stub[i]
                /\ \A p \in StubPaths(i) :
                    /\ \A file \in SameBaseFiles(p) :
                        \E c \in nodes[nodes[i].parent].children : nodes[c].path = file
                    /\ \A c \in nodes[nodes[i].parent].children :
                        (c > pipe.count0 /\ Parent(nodes[c].path) = Parent(p)) =>
                            BaseName(Base(nodes[c].path)) = BaseName(Base(p))

\* the same when no file of the directory merely begins like the stub
StubWithoutLongerNames ==
    (Stubbed /\ \A p \in DOMAIN files : HasPrefix(Base(p), <<"a">>) => BaseName(Base(p)) = <<"a">>)
        => C26_StubExpansion

(***************************************************************************)
(* C27: marker consistency.  The pruner, the reporter, restore-all and the *)
(* permanent removal take the same files for soft-deleted: a file is       *)
(* skipped by the pruner as already deleted exactly when the reporter      *)
(* counts it, restore-all renames it and the permanent removal unlinks     *)
(* it; and such a file is always one the pruner soft-deleted.              *)
(***************************************************************************)
SkippedAsDeleted(p) == SkipEntry(<<>>, Parent(p), Base(p))

C27_MarkerConsistency ==
    LET restored == ReAdd(files) IN
    /\ \A p \in DOMAIN files :
        /\ SkippedAsDeleted(p) <=> IsDeletedFile(p)
        /\ IsDeletedFile(p) <=> IsMarkedForRemoval(p)
        /\ IsDeletedFile(p) =>
                \E q \in DOMAIN orig : p = Sibling(q) /\ files[p] = orig[q]
        /\ ~IsDeletedFile(p) => (p \in DOMAIN restored /\ restored[p] = files[p])
    /\ DOMAIN RemoveDeleted(files) = {p \in DOMAIN files : ~SkippedAsDeleted(p)}
    /\ DOMAIN restored \cap {p \in DOMAIN files : IsMarkedForRemoval(p)} = {}
    /\ ComputeVirtualGainedSize(files).deleted =
            Cardinality({p \in DOMAIN files : IsMarkedForRemoval(p)})

\* after a pass: soft-deleted files of both kinds in both directories next to a kept one
C27_Witness ==
    /\ EndsWith(<<"prune">>)
    /\ {Sibling(<<N_profile>>), Sibling(<<N_sub, N_c>>), <<N_a>>} \subseteq DOMAIN files

(***************************************************************************)
(* C28: index unchanged by pruning.  After prune, restore-all and a second *)
(* prune with the same index object, the second pass has soft-deleted      *)
(* exactly the files the first pass soft-deleted.  (The index handed to    *)
(* the second pass carries the marks of the first: it is the same object   *)
(* and shows which files the first pass removed.)                          *)
(***************************************************************************)
DeletedByFirstPass == {p \in DOMAIN snapKeep : snapKeep[p] = "DELETED"}
DeletedByLastPass ==
    {p \in DOMAIN snapFiles : p \notin DOMAIN files /\ Sibling(p) \in DOMAIN files}

C28_SamePruneAgain ==
    (EndsWith(<<"prune", "restore", "prune">>) /\ DeletedByFirstPass # {}) =>
        DeletedByLastPass = DeletedByFirstPass

\* the leaves marked FILE are the same before and after a pass
FileLeavesKept ==
    EndsWith(<<"prune">>) =>
        {p \in DOMAIN to_keep : to_keep[p] = "FILE"} = {p \in DOMAIN snapKeep : snapKeep[p] = "FILE"}

(***************************************************************************)
(* C29: normalization preserves bindings.  The names bound by the import   *)
(* statements of a text are the same before and after split_imports (an    *)
(* import with "as" still binds its alias), and the code that shares a     *)
(* physical line with an import statement is still in the output.          *)
(***************************************************************************)
LiveImports(t) == {i \in 1..Len(t.lines) : t.lines[i].kind = "import" /\ t.lines[i].tags = 0}

\* a binding: the module or name imported and whether it is bound under its alias
Bindings(t) ==
    UNION {{t.lines[i].names[k] : k \in 1..Len(t.lines[i].names)} : i \in LiveImports(t)}

SharedCode(t) == {t.lines[i].no : i \in {j \in LiveImports(t) : t.lines[j].code}}

C29_BindingsKept ==
    (init # <<>> /\ init.phase = "split") =>
        /\ Bindings(init.text) = Bindings(init.before)
        /\ SharedCode(init.text) = SharedCode(init.before)

\* each half alone
AliasesKept ==
    (init # <<>> /\ init.phase = "split") => Bindings(init.text) = Bindings(init.before)

SharedCodeKept ==
    (init # <<>> /\ init.phase = "split") => SharedCode(init.text) = SharedCode(init.before)

\* what is kept: the modules and names imported
ImportedKept ==
    (init # <<>> /\ init.phase = "split") =>
        {b.n : b \in Bindings(init.text)} = {b.n : b \in Bindings(init.before)}

(***************************************************************************)
(* C30: confinement of the file tools.  For every relative_path, read_file *)
(* reads and replace_text writes only a file inside the library root; a    *)
(* relative_path that resolves outside the root is refused, and then no    *)
(* file is read or modified.                                               *)
(***************************************************************************)
FileToolCalled == tool # <<>> /\ tool.op \in {"read", "replace"} /\ tool.outcome # "none"

C30_FileToolsConfined ==
    FileToolCalled =>
        /\ \A p \in tool.read \cup tool.written : InsideRoot(p)
        /\ ~InsideRoot(Normalize(AbsRoot, tool.src)) =>
                /\ tool.outcome \in {"raised", "error"}
                /\ tool.read = {} /\ tool.written = {}
                /\ tool.disk = tool.disk0

\* what does hold: a call without ".." in relative_path stays inside the root,
\* and a call that does not end with "returned" or "done" modifies no file
FileToolsWithoutParentSteps ==
    FileToolCalled =>
        /\ (\A i \in 1..Len(tool.src) : tool.src[i] # Up) =>
                \A p \in tool.read \cup tool.written : InsideRoot(p)
        /\ tool.outcome \in {"raised", "error"} => tool.disk = tool.disk0
        /\ \A p \in DOMAIN tool.disk0 : p \notin tool.written => tool.disk[p] = tool.disk0[p]

Init ==
    /\ \E present \in SUBSET CandidateFiles :
        /\ files = [p \in present |-> p]
        /\ used \in SUBSET present
    /\ to_keep = IndexOf(used)
    /\ stack = <<>>
    /\ pc = "idle"
    /\ cur = <<>>
    /\ report = ComputeVirtualGainedSize(files)
    /\ ops = <<>>
    /\ orig = files
    /\ snapFiles = files
    /\ snapKeep = to_keep
    /\ passOps = 0
    /\ confirmed = FALSE
    /\ nodes = <<>>
    /\ gstack = <<>>
    /\ answers = <<>>
    /\ maxDepth = 0
    /\ imports = {}
    /\ NoCall

Next ==
    \/ BuildIndex
    \/ PruneBegin
    \/ PruneSkip
    \/ PruneEnter
    \/ PruneKeep
    \/ PruneCopy
    \/ PruneRemove
    \/ PruneReturn
    \/ RestoreAll
    \/ RestoreOne
    \/ ConfirmRemove
    \/ ComputeGain

Spec == Init /\ [][Next]_vars

\* the analysis of the user file: Tree(path=...), set_root, recursive_analysis
GraphStart ==
    /\ files = <<>>
    /\ to_keep = <<>>
    /\ stack = <<>>
    /\ pc = "idle"
    /\ cur = <<>>
    /\ report = ComputeVirtualGainedSize(<<>>)
    /\ ops = <<>>
    /\ orig = <<>>
    /\ snapFiles = <<>>
    /\ snapKeep = <<>>
    /\ passOps = 0
    /\ confirmed = FALSE
    /\ used = {}
    /\ nodes = <<[path |-> InitialPath, name |-> "", module |-> "", line |-> 0, not_found |-> FALSE,
                  parent |-> 0, depth |-> 0, other_parents |-> <<>>, children |-> {},
                  analyzed |-> FALSE]>>
    /\ gstack = <<[node |-> 1, phase |-> "enter", names |-> {}, kids |-> {}, todo |-> {}]>>
    /\ answers = <<>>
    /\ maxDepth = 1
    /\ NoCall

InitGraph == GraphStart /\ imports = ImportNames

NextGraph ==
    \/ GCall
    \/ GExploreNew
    \/ GExploreKnown
    \/ GExploreNotFound
    \/ GAttach
    \/ GDescend
    \/ GReturn

SpecGraph == InitGraph /\ [][NextGraph]_vars

\* the same analysis in an environment that holds other packages too
InitScope == GraphStart /\ imports = ScopeImportNames

SpecScope == InitScope /\ [][NextGraph]_vars

\* the analysis is one sequential call: it keeps running until it returns
FairSpecGraph == SpecGraph /\ WF_vars(NextGraph)

\* a tree recursive_analysis has returned: the user file, a.py of the package found
\* from it (or nothing found), and one import that did not resolve
PipeNode(path, name, module, not_found, parent, depth, children) ==
    [path |-> path, name |-> name, module |-> module, line |-> 1, not_found |-> not_found,
     parent |-> parent, depth |-> depth, other_parents |-> <<>>, children |-> children,
     analyzed |-> (parent # 0 /\ ~not_found)]

AnalysedTrees ==
    {<<PipeNode(G_user, "", "", FALSE, 0, 0, {})>>}
    \cup {<<PipeNode(G_user, "", "", FALSE, 0, 0, IF par = 1 THEN {2, 3} ELSE {2}),
            PipeNode(G_a, "demoLib.a", "", FALSE, 1, 1, IF par = 1 THEN {} ELSE {3}),
            PipeNode(NoPath, nm[1], nm[2], TRUE, par, par, {})>> :
                par \in {1, 2},
                nm \in {<<ExtName, "">>, <<"ext", ExtName>>, <<"sub", "">>}}

InitPipeline ==
    /\ \E present \in SUBSET PipelineFiles : files = [p \in present |-> p]
    /\ used = {}
    /\ to_keep = <<>>
    /\ stack = <<>>
    /\ pc = "idle"
    /\ cur = <<>>
    /\ report = ComputeVirtualGainedSize(files)
    /\ ops = <<>>
    /\ orig = files
    /\ snapFiles = files
    /\ snapKeep = to_keep
    /\ passOps = 0
    /\ confirmed = FALSE
    /\ nodes \in AnalysedTrees
    /\ gstack = <<>>
    /\ answers = <<>>
    /\ maxDepth = 0
    /\ imports = {}
    /\ \E entry \in {"run_main_pipeline", "__main__"} :
        pipe = [entry |-> entry, phase |-> "analysed", probable |-> [i \in DOMAIN nodes |-> {}]]
    /\ refs = <<>> /\ tool = <<>> /\ init = <<>> /\ index = <<>>

NextPipeline ==
    \/ PipeGuess
    \/ PipeExtract
    \/ PipePrune
    \/ PruneSkip
    \/ PruneEnter
    \/ PruneKeep
    \/ PruneCopy
    \/ PruneRemove
    \/ PruneReturn
    \/ PipeClean
    \/ PipeReport

SpecPipeline == InitPipeline /\ [][NextPipeline]_vars

InitRefs ==
    /\ NoFiles /\ NoAnalysis
    /\ pipe = <<>> /\ tool = <<>> /\ init = <<>> /\ index = <<>>
    /\ \E lines \in SourceLines, n_lines \in SUBSET (1..MaxLines),
          names_references \in SUBSET References :
        refs = [lines |-> lines, n_lines |-> n_lines, names_references |-> names_references,
                wildcard_imports |-> {}, line_to_ref |-> <<>>, done |-> FALSE]

NextRefs == GetReferences

SpecRefs == InitRefs /\ [][NextRefs]_vars

InitTools ==
    /\ NoFiles /\ NoAnalysis
    /\ pipe = <<>> /\ refs = <<>> /\ init = <<>> /\ index = <<>>
    /\ \/ \E rel \in RelArgs :
            tool = [op |-> "resolve", src |-> rel, dst |-> <<>>, disk0 |-> <<>>,
                    disk |-> <<>>, outcome |-> "none", result |-> <<>>]
       \/ \E source \in RelArgs, destination \in DstArgs, present \in SUBSET DiskFiles :
            tool = [op |-> "move", src |-> source, dst |-> destination,
                    disk0 |-> [p \in present |-> p], disk |-> [p \in present |-> p],
                    outcome |-> "none", result |-> <<>>]
       \/ \E rel \in RelArgs, present \in SUBSET DiskFiles :
            tool = [op |-> "read", src |-> rel,
                    disk0 |-> [p \in present |-> FileText(p)],
                    disk |-> [p \in present |-> FileText(p)],
                    outcome |-> "none", result |-> <<>>, read |-> {}, written |-> {}]
       \/ \E rel \in RelArgs, present \in SUBSET DiskFiles,
             start_line \in LineNumbers, end_line \in LineNumbers,
             replacement \in Replacements :
            tool = [op |-> "replace", src |-> rel,
                    disk0 |-> [p \in present |-> FileText(p)],
                    disk |-> [p \in present |-> FileText(p)],
                    start_line |-> start_line, end_line |-> end_line,
                    replacement |-> replacement,
                    outcome |-> "none", result |-> <<>>, read |-> {}, written |-> {}]

NextTools ==
    \/ ResolveCall
    \/ MoveCall
    \/ ReadCall
    \/ ReplaceCall

SpecTools == InitTools /\ [][NextTools]_vars

InitFaulty ==
    /\ Init
    /\ <<N_b>> \notin DOMAIN files

NextFaulty ==
    \/ BuildIndex
    \/ PruneBegin
    \/ PruneSkip
    \/ PruneEnter
    \/ PruneKeep
    \/ PruneCopy
    \/ PruneRemove
    \/ PruneReturn
    \/ PruneFail
    \/ PruneCrash

SpecFaulty == InitFaulty /\ [][NextFaulty]_vars

\* a tree whose resolved nodes have the paths of resolved and whose first unresolved
\* node has the probable paths of probable; a second unresolved node has none
IndexTree(resolved) ==
    LET r == SetToSeq(resolved) IN
    <<PipeNode(G_user, "", "", FALSE, 0, 0, 2..(Len(r) + 3))>>
        \o [k \in 1..Len(r) |-> PipeNode(r[k], "f", "", FALSE, 1, 1, {})]
        \o <<PipeNode(NoPath, "g", "", TRUE, 1, 1, {}), PipeNode(NoPath, "h", "", TRUE, 1, 1, {})>>

InitIndex ==
    /\ NoFiles
    /\ gstack = <<>> /\ answers = <<>> /\ maxDepth = 0 /\ imports = {}
    /\ pipe = <<>> /\ refs = <<>> /\ tool = <<>> /\ init = <<>>
    /\ \E resolved \in SUBSET (IndexPaths \ {G_user}), probable \in SUBSET (IndexPaths \ {G_user}) :
        /\ nodes = IndexTree(resolved)
        /\ index = [probable |-> [i \in DOMAIN nodes |->
                                    IF i = Len(nodes) - 1 THEN probable ELSE {}],
                    dpaths |-> <<>>, outcome |-> "none"]

NextIndex == ExtractUsedFiles

SpecIndex == InitIndex /\ [][NextIndex]_vars

N_stub == <<"a", ".pyi">>
N_so == <<"a", ".cpython-313-darwin", ".so">>
N_utils == <<"a", "_utils", ".py">>
N_utils_stub == <<"a", "_utils", ".pyi">>
StubFiles == {<<N_stub>>, <<N_a>>, <<N_so>>, <<N_utils>>, <<N_utils_stub>>, <<N_b>>}

\* trees with a.pyi as the path of a resolved node or as a probable path of an
\* unresolved one, below the user file or below b.py
StubTrees ==
    {<<PipeNode(G_user, "", "", FALSE, 0, 0, {2}),
       PipeNode(G_b, "demoLib.b", "", FALSE, 1, 1, IF par = 2 THEN {3} ELSE {}),
       PipeNode(IF found THEN LibRoot \o <<N_stub>> ELSE NoPath, "a", "", ~found, par, par, {})>> :
            par \in {2}, found \in BOOLEAN}
    \cup {<<PipeNode(G_user, "", "", FALSE, 0, 0, {2, 3}),
            PipeNode(G_b, "demoLib.b", "", FALSE, 1, 1, {}),
            PipeNode(IF found THEN LibRoot \o <<N_stub>> ELSE NoPath, "a", "", ~found, 1, 1, {})>> :
            found \in BOOLEAN}

InitStub ==
    /\ \E present \in SUBSET StubFiles : files = [p \in present |-> p]
    /\ used = {}
    /\ to_keep = <<>>
    /\ stack = <<>>
    /\ pc = "idle"
    /\ cur = <<>>
    /\ report = ComputeVirtualGainedSize(files)
    /\ ops = <<>>
    /\ orig = files
    /\ snapFiles = files
    /\ snapKeep = to_keep
    /\ passOps = 0
    /\ confirmed = FALSE
    /\ nodes \in StubTrees
    /\ gstack = <<>> /\ answers = <<>> /\ maxDepth = 0 /\ imports = {}
    /\ \E probable \in SUBSET {LibRoot \o <<N_stub>>, G_a} :
        pipe = [entry |-> "stub_add_compiled_file", phase |-> "guessed",
                probable |-> [i \in DOMAIN nodes |->
                                IF nodes[i].not_found THEN probable ELSE {}],
                is_stub |-> [i \in DOMAIN nodes |-> FALSE], count0 |-> Len(nodes)]
    /\ \A i \in DOMAIN nodes :
            \A p \in pipe.probable[i] \cup ({nodes[i].path} \ {NoPath, G_user}) :
                RelInLib(p) \in DOMAIN files
    /\ refs = <<>> /\ tool = <<>> /\ init = <<>> /\ index = <<>>

NextStub == StubAddCompiledFile

SpecStub == InitStub /\ [][NextStub]_vars

InitInits ==
    /\ NoFiles /\ NoAnalysis
    /\ pipe = <<>> /\ refs = <<>> /\ tool = <<>> /\ index = <<>>
    /\ \E t \in Texts :
        /\ Parsable(t)
        /\ init = [text |-> t, backup |-> NoBackup, pristine |-> t, before |-> t,
                   broken |-> {}, phase |-> "idle", runs |-> 0, hist |-> <<>>]

NextInits ==
    \/ SingleImportPerLine
    \/ FindBrokenImports
    \/ RestoreInit

SpecInits == InitInits /\ [][NextInits]_vars

====
